---- MODULE Spec2Model ----
(***************************************************************************)
(* Token bridge of the Google Contacts MCP server: the authorization-code  *)
(* store (auth-code-store.ts), the session store (session-manager.ts) and  *)
(* the provider operations of GoogleOAuthProvider (oauth-provider.ts).     *)
(*                                                                         *)
(* Every DynamoDB command and every upstream (Google) call is one atomic   *)
(* step of the request that issues it; the synchronous code that follows   *)
(* the command up to the next await belongs to the same step.  Requests    *)
(* are run by the processes of Procs; Spec interleaves their steps,        *)
(* SpecSeq runs one request at a time.  ret holds the outcome of the       *)
(* request that returned in the last step and is cleared by the next one;  *)
(* hist records what has been issued, for the statement of properties.     *)
(* A property whose JavaScript value is undefined is left out of the       *)
(* stored item.                                                            *)
(*                                                                         *)
(* Time is counted in minutes (Date.now() is `now`).                       *)
(***************************************************************************)
EXTENDS Integers, Sequences, FiniteSets, TLC

VARIABLES now, ticks, authCodes, sessions, ncodes, ntok, overlaps, pc, loc, ret, hist

vars == <<now, ticks, authCodes, sessions, ncodes, ntok, overlaps, pc, loc, ret, hist>>

(***************************************************************************)
(* Bounds of the model                                                     *)
(***************************************************************************)
Procs == {1, 2}
SeqProcs == {1}
MaxCodes == 1
MaxTokens == 4
MaxTicks == 1
MaxOverlaps == 1
TickSteps == {10, 60, 70}
NearSteps == {55, 60, 70}
DuringSteps == {1, 60}
ClientIds == {"c1", "c2"}
AuthorizingClients == {"c1"}
Verifiers == {"v1", "v2"}
Challenges == {"S256(v1)"}
GoogleCodes == {"U1", "U2"}
GoogleAccessValues == {"ga2"}
GoogleFirstAccessValues == {"ga1"}
GoogleLifetimes == {60}

(***************************************************************************)
(* Program constants (minutes)                                             *)
(***************************************************************************)
TEN_MINUTES == 10
TEN_MINUTES_MS == 10
NINETY_DAYS == 129600
THIRTY_DAYS == 43200
ONE_HOUR == 60
expiryBuffer == 5

(***************************************************************************)
(* Values                                                                  *)
(***************************************************************************)
NoItem == [absent |-> TRUE]
NoVerifier == ""
GoogleRefreshValue == "gr"
UserEmail == "user@example.com"
ContactsScope == "https://www.googleapis.com/auth/contacts.readonly"
ContactData == "connections"

Uuid(n) == "code" \o ToString(n)
RandomBytes(n) == "tok" \o ToString(n)
S256(verifier) == "S256(" \o verifier \o ")"
RefreshKey(refreshToken) == "refresh:" \o refreshToken

Has(item, f) == f \in DOMAIN item
Put(table, key, item) == (key :> item) @@ table
Delete(table, key) == [k \in DOMAIN table \ {key} |-> table[k]]
Lookup(table, key) == IF key \in DOMAIN table THEN table[key] ELSE NoItem
Present(item) == ~Has(item, "absent")
Count(f, key) == IF key \in DOMAIN f THEN f[key] ELSE 0

OrDefault(expiry_date, t) == IF expiry_date = 0 THEN t + ONE_HOUR ELSE expiry_date

NoRet == [op |-> "none"]
Idle(p) == pc[p] = "idle"
\* a request takes the lowest free slot; overlaps counts the requests that
\* started while another one was running
Free(p) == Idle(p) /\ \A q \in Procs : q < p => ~Idle(q)
Overlap(p) == IF Idle(p) /\ \E q \in Procs \ {p} : ~Idle(q) THEN overlaps + 1 ELSE overlaps
Goto(p, label, locals) == /\ pc' = [pc EXCEPT ![p] = label]
                          /\ overlaps' = Overlap(p)
                          /\ overlaps' <= MaxOverlaps
                          /\ loc' = [loc EXCEPT ![p] = locals]
                          /\ ret' = NoRet
Return(p, result) == /\ pc' = [pc EXCEPT ![p] = "idle"]
                     /\ overlaps' = Overlap(p)
                     /\ overlaps' <= MaxOverlaps
                     /\ loc' = [loc EXCEPT ![p] = NoRet]
                     /\ ret' = result

KnownCodes == {Uuid(n) : n \in 1..ncodes}
\* the values a client can present: those some exchange or refresh has returned
KnownTokens == hist.returned

RECURSIVE Join(_)
Join(strings) == IF Len(strings) = 0 THEN ""
                 ELSE IF Len(strings) = 1 THEN strings[1]
                 ELSE strings[1] \o " " \o Join(Tail(strings))

ScopeLists == {<<"contacts.readonly">>, <<ContactsScope>>}
Split(scope) == CHOOSE scopes \in ScopeLists : Join(scopes) = scope

(***************************************************************************)
(* AuthCodeStore                                                           *)
(***************************************************************************)
\* variant of AuthCodeExpired that already drops a record aged exactly 10 minutes
AuthCodeExpiredAtTen(data, t) == t - data.createdAt >= TEN_MINUTES_MS

AuthCodeExpired(data, t) == t - data.createdAt > TEN_MINUTES_MS

AuthCodeItem(authCode, data, t) ==
    [authCode |-> authCode, createdAt |-> t, ttl |-> t + TEN_MINUTES] @@ data

\* variant of UpdatedData that gives the completed record ten more minutes
UpdatedDataExtended(existingData, googleAuthCode, googleTokens) ==
    [googleAuthCode |-> googleAuthCode, googleTokens |-> googleTokens,
     ttl |-> existingData.ttl + TEN_MINUTES] @@ existingData

UpdatedData(existingData, googleAuthCode, googleTokens) ==
    [googleAuthCode |-> googleAuthCode, googleTokens |-> googleTokens] @@ existingData

(***************************************************************************)
(* SessionManager                                                          *)
(***************************************************************************)
\* the error of a PutCommand that the table rejects
PutFailed == "PutCommand failed"

SessionItem(sessionData, t) ==
    [ttl |-> t + NINETY_DAYS, createdAt |-> t, updatedAt |-> t] @@ sessionData

IndexItem(sessionData, t) ==
    [sessionId |-> RefreshKey(sessionData.mcpRefreshToken),
     accessTokenSessionId |-> sessionData.sessionId,
     ttl |-> t + NINETY_DAYS, createdAt |-> t, updatedAt |-> t]

SessionExpired(session, t) == Has(session, "expiresAt") /\ session.expiresAt < t

(***************************************************************************)
(* GoogleOAuthProvider.authorize                                           *)
(***************************************************************************)
Authorize(p) ==
    /\ Free(p)
    /\ ncodes < MaxCodes
    /\ \E client \in AuthorizingClients, codeChallenge \in Challenges :
         LET authCode == Uuid(ncodes + 1)
             data == [clientId |-> client, codeChallenge |-> codeChallenge,
                      redirectUri |-> "https://client/cb", state |-> "st",
                      scopes |-> <<"contacts.readonly">>]
         IN /\ authCodes' = Put(authCodes, authCode, AuthCodeItem(authCode, data, now))
            /\ ncodes' = ncodes + 1
            /\ Return(p, [op |-> "authorize", ok |-> TRUE, state |-> authCode])
    /\ UNCHANGED <<now, ticks, sessions, ntok, hist>>

(***************************************************************************)
(* GoogleOAuthProvider.handleGoogleCallback                                *)
(***************************************************************************)
\* handleGoogleCallback throws: to its caller, or, on a GET /google/callback
\* request, into the catch of the route, which answers 500 with the message
CbFail(p, l, error) ==
    IF Has(l, "query")
    THEN Return(p, [op |-> "google_callback", status |-> 500, error |-> error,
                    query |-> l.query])
    ELSE Return(p, [op |-> "callback", ok |-> FALSE, state |-> l.state, error |-> error])

\* what a step of handleGoogleCallback keeps of the request it belongs to
Request(l) == [k \in DOMAIN l \cap {"query"} |-> l[k]]

GoogleTokens(access, refresh, email, expiry_date, t) ==
    LET base == [accessToken |-> access, expiresAt |-> OrDefault(expiry_date, t)]
        r == IF refresh = "" THEN base ELSE [refreshToken |-> refresh] @@ base
    IN IF email = "" THEN r ELSE [userEmail |-> email] @@ r

\* oauth2Client.getToken and userinfo.get: either throws, or the tokens arrive
CbGoogle(p, l) ==
    \/ CbFail(p, l, "No access token received from Google")
    \/ \E access \in GoogleFirstAccessValues, refresh \in {"", GoogleRefreshValue},
          email \in {"", UserEmail}, expiry_date \in {0} \cup {now + d : d \in GoogleLifetimes} :
         Goto(p, "cb_get2",
              [googleTokens |-> GoogleTokens(access, refresh, email, expiry_date, now)] @@ l)

\* variant of CbGet that asks the upstream for tokens whatever getAuthCode returned
CbGetUpstreamFirst(p) ==
    /\ Free(p)
    /\ \E state \in KnownCodes, code \in GoogleCodes :
         CbGoogle(p, [op |-> "callback", state |-> state, code |-> code])
    /\ UNCHANGED <<now, ticks, authCodes, sessions, ncodes, ntok, hist>>

\* The upstream redeems a code once: the callback that finds the record not
\* yet completed carries the first code, a callback that finds it completed
\* carries a later one.
DeliveredGoogleCodes(item) ==
    {code \in GoogleCodes : (code = "U1") = ~Has(item, "googleTokens")}

CbGet(p) ==
    /\ Free(p)
    /\ \E state \in KnownCodes :
       \E code \in DeliveredGoogleCodes(Lookup(authCodes, state)) :
         LET item == Lookup(authCodes, state)
             l == [op |-> "callback", state |-> state, code |-> code]
         IN IF ~Present(item) THEN CbFail(p, l, "Invalid state parameter")
            ELSE IF AuthCodeExpired(item, now) THEN Goto(p, "cb_expire", l)
            ELSE CbGoogle(p, l)
    /\ UNCHANGED <<now, ticks, authCodes, sessions, ncodes, ntok, hist>>

CbExpire(p) ==
    /\ pc[p] = "cb_expire"
    /\ authCodes' = Delete(authCodes, loc[p].state)
    /\ CbFail(p, loc[p], IF Has(loc[p], "redirecting")
                          THEN "Authorization session expired"
                          ELSE IF Has(loc[p], "googleTokens")
                          THEN "Authorization code not found or expired"
                          ELSE "Invalid state parameter")
    /\ UNCHANGED <<now, ticks, sessions, ncodes, ntok, hist>>

CbGet2(p) ==
    /\ pc[p] = "cb_get2"
    /\ LET item == Lookup(authCodes, loc[p].state)
       IN IF ~Present(item) THEN CbFail(p, loc[p], "Authorization code not found or expired")
          ELSE IF AuthCodeExpired(item, now) THEN Goto(p, "cb_expire", loc[p])
          ELSE Goto(p, "cb_put",
                    [op |-> "callback", state |-> loc[p].state,
                     updatedData |-> UpdatedData(item, loc[p].code, loc[p].googleTokens)]
                    @@ Request(loc[p]))
    /\ UNCHANGED <<now, ticks, authCodes, sessions, ncodes, ntok, hist>>

\* handleGoogleCallback returns: to its caller, or, on a GET /google/callback
\* request, to the route, which goes on to getAuthCodeData(state)
CbDone(p, l) ==
    IF Has(l, "query")
    THEN Goto(p, "gc_get", [op |-> "callback", state |-> l.state, query |-> l.query,
                            redirecting |-> TRUE])
    ELSE Return(p, [op |-> "callback", ok |-> TRUE, state |-> l.state])

CbPut(p) ==
    /\ pc[p] = "cb_put"
    /\ authCodes' = Put(authCodes, loc[p].state, loc[p].updatedData)
    /\ CbDone(p, loc[p])
    /\ UNCHANGED <<now, ticks, sessions, ncodes, ntok, hist>>

(***************************************************************************)
(* app.get('/google/callback'): the query is checked, handleGoogleCallback *)
(* runs, the record is read again and the user is sent back to the client  *)
(***************************************************************************)
\* req.query: "" stands for a parameter that is missing or empty
Queries == [error : {"", "access_denied"}, code : {""} \cup GoogleCodes,
            state : {""} \cup KnownCodes]

WellFormed(query) == query.error = "" /\ query.code # "" /\ query.state # ""

\* variant of RedirectUrl that sends the correlation code as the state
RedirectUrlEchoesCode(authData, state) ==
    [redirectUri |-> authData.redirectUri, code |-> state, state |-> state]

\* new URL(authData.redirectUri) with code and state set
RedirectUrl(authData, state) ==
    [redirectUri |-> authData.redirectUri, code |-> state,
     state |-> IF Has(authData, "state") THEN authData.state ELSE ""]

\* variant of GoogleCallback that does not look at the error parameter
GoogleCallbackIgnoresError(p) ==
    /\ Free(p)
    /\ \E query \in Queries :
         IF query.code = "" \/ query.state = ""
         THEN Return(p, [op |-> "google_callback", status |-> 400, query |-> query])
         ELSE LET item == Lookup(authCodes, query.state)
                  l == [op |-> "callback", state |-> query.state, code |-> query.code,
                        query |-> query]
              IN /\ query.code \in DeliveredGoogleCodes(item)
                 /\ IF ~Present(item) THEN CbFail(p, l, "Invalid state parameter")
                    ELSE IF AuthCodeExpired(item, now) THEN Goto(p, "cb_expire", l)
                    ELSE CbGoogle(p, l)
    /\ UNCHANGED <<now, ticks, authCodes, sessions, ncodes, ntok, hist>>

GoogleCallback(p) ==
    /\ Free(p)
    /\ \E query \in Queries :
         IF ~WellFormed(query)
         THEN Return(p, [op |-> "google_callback", status |-> 400, query |-> query])
         ELSE LET item == Lookup(authCodes, query.state)
                  l == [op |-> "callback", state |-> query.state, code |-> query.code,
                        query |-> query]
              IN /\ query.code \in DeliveredGoogleCodes(item)
                 /\ IF ~Present(item) THEN CbFail(p, l, "Invalid state parameter")
                    ELSE IF AuthCodeExpired(item, now) THEN Goto(p, "cb_expire", l)
                    ELSE CbGoogle(p, l)
    /\ UNCHANGED <<now, ticks, authCodes, sessions, ncodes, ntok, hist>>

\* getAuthCodeData(state) and res.redirect
GcGet(p) ==
    /\ pc[p] = "gc_get"
    /\ LET authData == Lookup(authCodes, loc[p].state)
       IN IF ~Present(authData) THEN CbFail(p, loc[p], "Authorization session expired")
          ELSE IF AuthCodeExpired(authData, now) THEN Goto(p, "cb_expire", loc[p])
          ELSE Return(p, [op |-> "google_callback", status |-> 302, query |-> loc[p].query,
                          location |-> RedirectUrl(authData, loc[p].state)])
    /\ UNCHANGED <<now, ticks, authCodes, sessions, ncodes, ntok, hist>>

(***************************************************************************)
(* GoogleOAuthProvider.exchangeAuthorizationCode                           *)
(***************************************************************************)
ExFail(p, l, error) ==
    Return(p, [ok |-> FALSE, error |-> error] @@ l)

\* variant of PkceMatches that accepts every verifier
PkceAlwaysMatches(codeVerifier, codeChallenge) ==
    codeVerifier = NoVerifier \/ codeChallenge = codeChallenge

PkceMatches(codeVerifier, codeChallenge) ==
    codeVerifier = NoVerifier \/ S256(codeVerifier) = codeChallenge

ExchangeSessionData(authData, client, accessToken, mcpRefreshToken, t) ==
    LET g == authData.googleTokens
        base == [sessionId |-> accessToken, clientId |-> client, userEmail |-> g.userEmail,
                 accessToken |-> g.accessToken, mcpRefreshToken |-> mcpRefreshToken,
                 expiresAt |-> g.expiresAt, mcpTokenExpiresAt |-> t + THIRTY_DAYS,
                 tokenType |-> "Bearer", scope |-> ContactsScope]
    IN IF Has(g, "refreshToken") THEN [refreshToken |-> g.refreshToken] @@ base ELSE base

\* variant of ExGet without the comparison of the record's clientId with the caller
ExGetAnyClient(p) ==
    /\ Free(p)
    /\ \E client \in ClientIds, code \in KnownCodes, codeVerifier \in {NoVerifier} \cup Verifiers :
         LET authData == Lookup(authCodes, code)
             l == [op |-> "exchange", code |-> code, client |-> client,
                   codeVerifier |-> codeVerifier]
             accessToken == RandomBytes(ntok + 1)
             mcpRefreshToken == RandomBytes(ntok + 2)
             tokens == [accessToken |-> accessToken, mcpRefreshToken |-> mcpRefreshToken,
                        scope |-> Join(authData.scopes)]
         IN IF ~Present(authData)
            THEN ExFail(p, l, "Invalid authorization code") /\ UNCHANGED ntok
            ELSE IF AuthCodeExpired(authData, now)
            THEN Goto(p, "ex_expire", [lapsed |-> authData] @@ l) /\ UNCHANGED ntok
            ELSE IF ~Has(authData, "googleTokens")
            THEN ExFail(p, l, "Google authentication not completed") /\ UNCHANGED ntok
            ELSE IF ~PkceMatches(codeVerifier, authData.codeChallenge)
            THEN ExFail(p, l, "Invalid code verifier") /\ UNCHANGED ntok
            ELSE /\ ntok + 2 <= MaxTokens
                 /\ ntok' = ntok + 2
                 /\ IF Has(authData.googleTokens, "userEmail")
                    THEN Goto(p, "ex_put_session",
                              [sessionData |-> ExchangeSessionData(authData, client, accessToken,
                                                                   mcpRefreshToken, now),
                               t |-> now] @@ tokens @@ l)
                    ELSE Goto(p, "ex_delete", tokens @@ l)
    /\ UNCHANGED <<now, ticks, authCodes, sessions, ncodes, hist>>

ExGet(p) ==
    /\ Free(p)
    /\ \E client \in ClientIds, code \in KnownCodes, codeVerifier \in {NoVerifier} \cup Verifiers :
         LET authData == Lookup(authCodes, code)
             l == [op |-> "exchange", code |-> code, client |-> client,
                   codeVerifier |-> codeVerifier]
             accessToken == RandomBytes(ntok + 1)
             mcpRefreshToken == RandomBytes(ntok + 2)
             tokens == [accessToken |-> accessToken, mcpRefreshToken |-> mcpRefreshToken,
                        scope |-> Join(authData.scopes)]
         IN IF ~Present(authData)
            THEN ExFail(p, l, "Invalid authorization code") /\ UNCHANGED ntok
            ELSE IF AuthCodeExpired(authData, now)
            THEN Goto(p, "ex_expire", [lapsed |-> authData] @@ l) /\ UNCHANGED ntok
            ELSE IF authData.clientId # client
            THEN ExFail(p, l, "Invalid authorization code") /\ UNCHANGED ntok
            ELSE IF ~Has(authData, "googleTokens")
            THEN ExFail(p, l, "Google authentication not completed") /\ UNCHANGED ntok
            ELSE IF ~PkceMatches(codeVerifier, authData.codeChallenge)
            THEN ExFail(p, l, "Invalid code verifier") /\ UNCHANGED ntok
            ELSE /\ ntok + 2 <= MaxTokens
                 /\ ntok' = ntok + 2
                 /\ IF Has(authData.googleTokens, "userEmail")
                    THEN Goto(p, "ex_put_session",
                              [sessionData |-> ExchangeSessionData(authData, client, accessToken,
                                                                   mcpRefreshToken, now),
                               t |-> now] @@ tokens @@ l)
                    ELSE Goto(p, "ex_delete", tokens @@ l)
    /\ UNCHANGED <<now, ticks, authCodes, sessions, ncodes, hist>>

ExExpire(p) ==
    /\ pc[p] = "ex_expire"
    /\ authCodes' = Delete(authCodes, loc[p].code)
    /\ ExFail(p, loc[p], "Invalid authorization code")
    /\ UNCHANGED <<now, ticks, sessions, ncodes, ntok, hist>>

\* saveSession, first PutCommand: the session item is written, or the command
\* is rejected and its error leaves exchangeAuthorizationCode
ExPutSession(p) ==
    /\ pc[p] = "ex_put_session"
    /\ \/ /\ sessions' = Put(sessions, loc[p].sessionData.sessionId,
                             SessionItem(loc[p].sessionData, loc[p].t))
          /\ hist' = [hist EXCEPT
                        !.madeFrom = Put(@, loc[p].sessionData.sessionId, loc[p].code)]
          /\ Goto(p, "ex_put_index", loc[p])
       \/ /\ ExFail(p, [op |-> "exchange", code |-> loc[p].code, client |-> loc[p].client,
                        codeVerifier |-> loc[p].codeVerifier,
                        saving |-> loc[p].sessionData.sessionId,
                        refreshToken |-> loc[p].sessionData.mcpRefreshToken], PutFailed)
          /\ UNCHANGED <<sessions, hist>>
    /\ UNCHANGED <<now, ticks, authCodes, ncodes, ntok>>

ExPutIndex(p) ==
    /\ pc[p] = "ex_put_index"
    /\ sessions' = Put(sessions, RefreshKey(loc[p].sessionData.mcpRefreshToken),
                       IndexItem(loc[p].sessionData, loc[p].t))
    /\ Goto(p, "ex_delete", [k \in DOMAIN loc[p] \ {"sessionData", "t"} |-> loc[p][k]])
    /\ UNCHANGED <<now, ticks, authCodes, ncodes, ntok, hist>>

\* variant of ExDelete that returns the tokens and leaves the code record in place
ExDeleteKeepsCode(p) ==
    /\ pc[p] = "ex_delete"
    /\ hist' = [hist EXCEPT
                  !.exchanged = Put(@, loc[p].code, Count(@, loc[p].code) + 1),
                  !.issued = Put(@, loc[p].accessToken, Count(@, loc[p].accessToken) + 1),
                  !.returned = @ \cup {loc[p].accessToken, loc[p].mcpRefreshToken}]
    /\ Return(p, [op |-> "exchange", ok |-> TRUE, code |-> loc[p].code, client |-> loc[p].client,
                  codeVerifier |-> loc[p].codeVerifier,
                  access_token |-> loc[p].accessToken, token_type |-> "Bearer",
                  expires_in |-> THIRTY_DAYS, refresh_token |-> loc[p].mcpRefreshToken,
                  scope |-> loc[p].scope])
    /\ UNCHANGED <<now, ticks, authCodes, sessions, ncodes, ntok>>

ExDelete(p) ==
    /\ pc[p] = "ex_delete"
    /\ authCodes' = Delete(authCodes, loc[p].code)
    /\ hist' = [hist EXCEPT
                  !.exchanged = Put(@, loc[p].code, Count(@, loc[p].code) + 1),
                  !.issued = Put(@, loc[p].accessToken, Count(@, loc[p].accessToken) + 1),
                  !.returned = @ \cup {loc[p].accessToken, loc[p].mcpRefreshToken}]
    /\ Return(p, [op |-> "exchange", ok |-> TRUE, code |-> loc[p].code, client |-> loc[p].client,
                  codeVerifier |-> loc[p].codeVerifier,
                  access_token |-> loc[p].accessToken, token_type |-> "Bearer",
                  expires_in |-> THIRTY_DAYS, refresh_token |-> loc[p].mcpRefreshToken,
                  scope |-> loc[p].scope])
    /\ UNCHANGED <<now, ticks, sessions, ncodes, ntok>>

(***************************************************************************)
(* SessionManager.updateAccessToken (UpdateCommand, no condition: the item *)
(* is created when the key has none) and extendSession                     *)
(***************************************************************************)
UpdateAccessToken(table, sessionId, accessToken, expiresAt, t) ==
    Put(table, sessionId,
        [accessToken |-> accessToken, expiresAt |-> expiresAt,
         ttl |-> t + NINETY_DAYS, updatedAt |-> t]
        @@ (IF sessionId \in DOMAIN table THEN table[sessionId] ELSE [sessionId |-> sessionId]))

ExtendSession(table, sessionId, days, t) ==
    IF sessionId \in DOMAIN table
    THEN Put(table, sessionId, [mcpTokenExpiresAt |-> t + days * (THIRTY_DAYS \div 30)]
                               @@ table[sessionId])
    ELSE table

(***************************************************************************)
(* GoogleOAuthProvider.exchangeRefreshToken                                *)
(***************************************************************************)
RfFail(p, l, error) ==
    Return(p, [op |-> "refresh", ok |-> FALSE, refreshToken |-> l.refreshToken, error |-> error])

\* variant of RefreshSessionData that keeps the session id of the session it refreshes
RefreshSessionDataSameId(session, refreshToken, newAccessToken, access, expiresAt, t) ==
    LET picked == [k \in DOMAIN session \cap {"clientId", "userEmail", "refreshToken", "scope"}
                     |-> session[k]]
    IN [sessionId |-> session.sessionId, accessToken |-> access,
        mcpRefreshToken |-> refreshToken, expiresAt |-> expiresAt,
        mcpTokenExpiresAt |-> t + THIRTY_DAYS, tokenType |-> "Bearer"]
       @@ picked

\* variant of RefreshSessionData that does not carry the client and the user forward
RefreshSessionDataUnbound(session, refreshToken, newAccessToken, access, expiresAt, t) ==
    LET picked == [k \in DOMAIN session \cap {"refreshToken", "scope"} |-> session[k]]
    IN [sessionId |-> newAccessToken, accessToken |-> access, mcpRefreshToken |-> refreshToken,
        expiresAt |-> expiresAt, mcpTokenExpiresAt |-> t + THIRTY_DAYS, tokenType |-> "Bearer"]
       @@ picked

RefreshSessionData(session, refreshToken, newAccessToken, access, expiresAt, t) ==
    LET picked == [k \in DOMAIN session \cap {"clientId", "userEmail", "refreshToken", "scope"}
                     |-> session[k]]
    IN [sessionId |-> newAccessToken, accessToken |-> access, mcpRefreshToken |-> refreshToken,
        expiresAt |-> expiresAt, mcpTokenExpiresAt |-> t + THIRTY_DAYS, tokenType |-> "Bearer"]
       @@ picked

RfGetIndex(p) ==
    /\ Free(p)
    /\ \E refreshToken \in KnownTokens :
         LET index == Lookup(sessions, RefreshKey(refreshToken))
             l == [op |-> "refresh", refreshToken |-> refreshToken]
         IN IF ~Present(index) \/ ~Has(index, "accessTokenSessionId")
            THEN RfFail(p, l, "Invalid refresh token")
            ELSE Goto(p, "rf_get_session", [sid |-> index.accessTokenSessionId] @@ l)
    /\ UNCHANGED <<now, ticks, authCodes, sessions, ncodes, ntok, hist>>

\* oauth2Client.refreshAccessToken: throws (a transient failure, or the upstream
\* reporting the refresh token as revoked: invalid_grant), returns no
\* access_token, or refreshes
RfGoogle(p, l, session) ==
    \/ RfFail(p, l, "upstream refresh failed") /\ UNCHANGED ntok
    \/ RfFail(p, l, "invalid_grant") /\ UNCHANGED ntok
    \/ RfFail(p, l, "Failed to refresh Google access token") /\ UNCHANGED ntok
    \/ /\ ntok + 1 <= MaxTokens
       /\ ntok' = ntok + 1
       /\ \E access \in GoogleAccessValues,
             expiry_date \in {0} \cup {now + d : d \in GoogleLifetimes} :
            LET googleTokenExpiresAt == OrDefault(expiry_date, now)
            IN Goto(p, "rf_update",
                    [op |-> "refresh", refreshToken |-> l.refreshToken,
                     sid |-> l.sid, access |-> access,
                     expiresAt |-> googleTokenExpiresAt, t |-> now,
                     sessionData |-> RefreshSessionData(session, l.refreshToken,
                                                        RandomBytes(ntok + 1), access,
                                                        googleTokenExpiresAt, now)])

\* variant of RfGetSession that deletes the resolved session when the upstream
\* refresh throws
RfGetSessionDropsOnFailure(p) ==
    /\ pc[p] = "rf_get_session"
    /\ LET session == Lookup(sessions, loc[p].sid)
       IN IF ~Present(session)
          THEN RfFail(p, loc[p], "Invalid refresh token") /\ UNCHANGED <<ntok, sessions>>
          ELSE IF SessionExpired(session, now)
          THEN Goto(p, "rf_expire", loc[p]) /\ UNCHANGED <<ntok, sessions>>
          ELSE \/ RfGoogle(p, loc[p], session) /\ UNCHANGED sessions
               \/ /\ RfFail(p, loc[p], "upstream refresh failed")
                  /\ sessions' = Delete(sessions, loc[p].sid)
                  /\ UNCHANGED ntok
    /\ UNCHANGED <<now, ticks, authCodes, ncodes, hist>>

RfGetSession(p) ==
    /\ pc[p] = "rf_get_session"
    /\ LET session == Lookup(sessions, loc[p].sid)
       IN IF ~Present(session)
          THEN RfFail(p, loc[p], "Invalid refresh token") /\ UNCHANGED ntok
          ELSE IF SessionExpired(session, now)
          THEN Goto(p, "rf_expire", loc[p]) /\ UNCHANGED ntok
          ELSE RfGoogle(p, loc[p], session)
    /\ UNCHANGED <<now, ticks, authCodes, sessions, ncodes, hist>>

RfExpire(p) ==
    /\ pc[p] = "rf_expire"
    /\ sessions' = Delete(sessions, loc[p].sid)
    /\ RfFail(p, loc[p], "Invalid refresh token")
    /\ UNCHANGED <<now, ticks, authCodes, ncodes, ntok, hist>>

RfUpdate(p) ==
    /\ pc[p] = "rf_update"
    /\ sessions' = UpdateAccessToken(sessions, loc[p].sid, loc[p].access, loc[p].expiresAt, loc[p].t)
    /\ Goto(p, "rf_put_session", loc[p])
    /\ UNCHANGED <<now, ticks, authCodes, ncodes, ntok, hist>>

\* variant of RfPutSession that goes on to the refresh index without writing
\* the new session
RfPutSessionSkipped(p) ==
    /\ pc[p] = "rf_put_session"
    /\ Goto(p, "rf_put_index", loc[p])
    /\ UNCHANGED <<now, ticks, authCodes, sessions, ncodes, ntok, hist>>

\* variant of RfPutSession that writes the refresh index where the session
\* item is to be written
RfPutSessionIndexFirst(p) ==
    /\ pc[p] = "rf_put_session"
    /\ sessions' = Put(sessions, RefreshKey(loc[p].sessionData.mcpRefreshToken),
                       IndexItem(loc[p].sessionData, loc[p].t))
    /\ Goto(p, "rf_put_index", loc[p])
    /\ UNCHANGED <<now, ticks, authCodes, ncodes, ntok, hist>>

\* saveSession, first PutCommand, in exchangeRefreshToken
RfPutSession(p) ==
    /\ pc[p] = "rf_put_session"
    /\ \/ /\ sessions' = Put(sessions, loc[p].sessionData.sessionId,
                             SessionItem(loc[p].sessionData, loc[p].t))
          /\ Goto(p, "rf_put_index", loc[p])
       \/ /\ Return(p, [op |-> "refresh", ok |-> FALSE, refreshToken |-> loc[p].refreshToken,
                        error |-> PutFailed, saving |-> loc[p].sessionData.sessionId])
          /\ UNCHANGED sessions
    /\ UNCHANGED <<now, ticks, authCodes, ncodes, ntok, hist>>

\* variant of RfPutIndex that returns without writing the refresh index
RfPutIndexSkipped(p) ==
    /\ pc[p] = "rf_put_index"
    /\ hist' = [hist EXCEPT
                  !.issued = Put(@, loc[p].sessionData.sessionId,
                                 Count(@, loc[p].sessionData.sessionId) + 1),
                  !.returned = @ \cup {loc[p].sessionData.sessionId}]
    /\ Return(p, [op |-> "refresh", ok |-> TRUE, refreshToken |-> loc[p].refreshToken,
                  superseded |-> loc[p].sid,
                  access_token |-> loc[p].sessionData.sessionId, token_type |-> "Bearer",
                  expires_in |-> THIRTY_DAYS, refresh_token |-> loc[p].refreshToken,
                  scope |-> IF Has(loc[p].sessionData, "scope")
                            THEN loc[p].sessionData.scope ELSE "undefined"])
    /\ UNCHANGED <<now, ticks, authCodes, sessions, ncodes, ntok>>

RfPutIndex(p) ==
    /\ pc[p] = "rf_put_index"
    /\ sessions' = Put(sessions, RefreshKey(loc[p].sessionData.mcpRefreshToken),
                       IndexItem(loc[p].sessionData, loc[p].t))
    /\ hist' = [hist EXCEPT
                  !.issued = Put(@, loc[p].sessionData.sessionId,
                                 Count(@, loc[p].sessionData.sessionId) + 1),
                  !.returned = @ \cup {loc[p].sessionData.sessionId}]
    /\ Return(p, [op |-> "refresh", ok |-> TRUE, refreshToken |-> loc[p].refreshToken,
                  superseded |-> loc[p].sid,
                  access_token |-> loc[p].sessionData.sessionId, token_type |-> "Bearer",
                  expires_in |-> THIRTY_DAYS, refresh_token |-> loc[p].refreshToken,
                  scope |-> IF Has(loc[p].sessionData, "scope")
                            THEN loc[p].sessionData.scope ELSE "undefined"])
    /\ UNCHANGED <<now, ticks, authCodes, ncodes, ntok>>

(***************************************************************************)
(* GoogleOAuthProvider.verifyAccessToken                                   *)
(***************************************************************************)
\* verifyAccessToken throws: to its caller, or, on a POST /mcp request, into
\* the catch of the route, which answers 401 invalid_token
VfFail(p, l, error) ==
    IF Has(l, "header")
    THEN Return(p, [op |-> "mcp", status |-> 401, error |-> "invalid_token",
                    header |-> l.header])
    ELSE Return(p, [op |-> "verify", ok |-> FALSE, error |-> error] @@ l)

\* variant of NeedsRefresh whose buffer includes the instant 5 minutes before expiry
NeedsRefreshAtBuffer(session, t) ==
    Has(session, "expiresAt") /\ session.expiresAt - t <= expiryBuffer

NeedsRefresh(session, t) ==
    Has(session, "expiresAt") /\ session.expiresAt - t < expiryBuffer

\* variant of VfGoogle without the try/catch: the error of the upstream refresh
\* reaches the caller of verifyAccessToken
VfGooglePropagates(p, l) ==
    \/ VfFail(p, l, "Failed to auto-refresh Google token")
    \/ \E access \in GoogleAccessValues,
          expiry_date \in {0} \cup {now + d : d \in GoogleLifetimes} :
         Goto(p, "vf_update", [access |-> access, expiresAt |-> OrDefault(expiry_date, now),
                               t |-> now] @@ l)

\* oauth2Client.refreshAccessToken inside try/catch: a throw or a reply without
\* access_token leaves the session as it is
VfGoogle(p, l) ==
    \/ Goto(p, "vf_extend", [caught |-> "Failed to auto-refresh Google token"] @@ l)
    \/ \E access \in GoogleAccessValues,
          expiry_date \in {0} \cup {now + d : d \in GoogleLifetimes} :
         Goto(p, "vf_update", [access |-> access, expiresAt |-> OrDefault(expiry_date, now),
                               t |-> now] @@ l)

\* getSession(token) and what verifyAccessToken does with its answer
VfLookup(p, l) ==
    LET session == Lookup(sessions, l.token)
        kept == [k \in DOMAIN session \cap {"clientId", "scope"} |-> session[k]]
    IN IF ~Present(session) THEN VfFail(p, l, "Invalid or expired access token")
       ELSE IF SessionExpired(session, now)
       THEN Goto(p, "vf_expire", [lapsed |-> session] @@ l)
       ELSE IF NeedsRefresh(session, now) /\ Has(session, "refreshToken")
       THEN VfGoogle(p, [session |-> kept] @@ l)
       ELSE Goto(p, "vf_extend", [session |-> kept] @@ l)

VfGet(p) ==
    /\ Free(p)
    /\ \E token \in KnownTokens : VfLookup(p, [op |-> "verify", token |-> token])
    /\ UNCHANGED <<now, ticks, authCodes, sessions, ncodes, ntok, hist>>

VfExpire(p) ==
    /\ pc[p] = "vf_expire"
    /\ sessions' = Delete(sessions, loc[p].token)
    /\ VfFail(p, loc[p], "Invalid or expired access token")
    /\ UNCHANGED <<now, ticks, authCodes, ncodes, ntok, hist>>

VfUpdate(p) ==
    /\ pc[p] = "vf_update"
    /\ sessions' = UpdateAccessToken(sessions, loc[p].token, loc[p].access,
                                     loc[p].expiresAt, loc[p].t)
    /\ Goto(p, "vf_extend", [k \in DOMAIN loc[p] \ {"access", "expiresAt", "t"} |-> loc[p][k]])
    /\ UNCHANGED <<now, ticks, authCodes, ncodes, ntok, hist>>

\* verifyAccessToken returns authInfo: to its caller, or, on a POST /mcp
\* request, to the route, which stores it in the request and goes on to
\* mcpService.handleRequest
VfAccept(p, l, authInfo) ==
    IF Has(l, "header")
    THEN Goto(p, "mcp_handle", [op |-> "mcp", header |-> l.header, authInfo |-> authInfo])
    ELSE Return(p, authInfo)

VfExtend(p) ==
    /\ pc[p] = "vf_extend"
    /\ sessions' = ExtendSession(sessions, loc[p].token, 30, now)
    /\ IF Has(loc[p].session, "scope")
       THEN VfAccept(p, loc[p],
                     [op |-> "verify", ok |-> TRUE, token |-> loc[p].token,
                      clientId |-> IF Has(loc[p].session, "clientId")
                                   THEN loc[p].session.clientId ELSE "unknown",
                      scopes |-> Split(loc[p].session.scope)])
       ELSE VfFail(p, loc[p], "TypeError")
    /\ UNCHANGED <<now, ticks, authCodes, ncodes, ntok, hist>>

(***************************************************************************)
(* GoogleOAuthProvider.revokeToken                                         *)
(***************************************************************************)
RvReturn(p, l, resolved, upstream) ==
    Return(p, [op |-> "revoke", ok |-> TRUE, token |-> l.token, resolved |-> resolved,
               upstream |-> upstream])

\* a command of the session store rejects inside the try block: the catch
\* swallows the error and revokeToken returns
RvCaught(p, l, resolved, upstream) ==
    Return(p, [op |-> "revoke", ok |-> TRUE, token |-> l.token, resolved |-> resolved,
               upstream |-> upstream, caught |-> "store"])

\* variant of RvGoogle that lets the error of the upstream revocation reach the caller
RvGooglePropagates(p, l) ==
    \/ Goto(p, "rv_delete", l)
    \/ Return(p, [op |-> "revoke", ok |-> FALSE, token |-> l.token, resolved |-> TRUE,
                  upstream |-> "threw"])

\* oauth2Client.revokeToken inside the try block: a throw skips deleteSession
RvGoogle(p, l) ==
    \/ Goto(p, "rv_delete", l)
    \/ RvReturn(p, l, TRUE, "threw")

RvGet(p) ==
    /\ Free(p)
    /\ \E token \in KnownTokens :
         LET session == Lookup(sessions, token)
             l == [op |-> "revoke", token |-> token]
         IN \/ RvCaught(p, l, FALSE, "none")
            \/ IF ~Present(session) THEN RvReturn(p, l, FALSE, "none")
               ELSE IF SessionExpired(session, now) THEN Goto(p, "rv_expire", l)
               ELSE RvGoogle(p, l)
    /\ UNCHANGED <<now, ticks, authCodes, sessions, ncodes, ntok, hist>>

RvExpire(p) ==
    /\ pc[p] = "rv_expire"
    /\ \/ sessions' = Delete(sessions, loc[p].token) /\ RvReturn(p, loc[p], FALSE, "none")
       \/ UNCHANGED sessions /\ RvCaught(p, loc[p], FALSE, "none")
    /\ UNCHANGED <<now, ticks, authCodes, ncodes, ntok, hist>>

\* variant of RvDelete whose delete also removes the refresh index of the
\* session it deletes
RvDeleteWithIndex(p) ==
    /\ pc[p] = "rv_delete"
    /\ LET session == Lookup(sessions, loc[p].token)
           index == IF Has(session, "mcpRefreshToken")
                    THEN RefreshKey(session.mcpRefreshToken) ELSE loc[p].token
       IN sessions' = Delete(Delete(sessions, loc[p].token), index)
    /\ RvReturn(p, loc[p], TRUE, "revoked")
    /\ UNCHANGED <<now, ticks, authCodes, ncodes, ntok, hist>>

\* variant of RvDelete whose delete removes every session of the refresh
\* lineage of the session it deletes
RvDeleteLineage(p) ==
    /\ pc[p] = "rv_delete"
    /\ LET session == Lookup(sessions, loc[p].token)
           lineage == {k \in DOMAIN sessions :
                         /\ Has(session, "mcpRefreshToken")
                         /\ Has(sessions[k], "mcpRefreshToken")
                         /\ sessions[k].mcpRefreshToken = session.mcpRefreshToken}
       IN sessions' = [k \in DOMAIN sessions \ (lineage \cup {loc[p].token}) |-> sessions[k]]
    /\ RvReturn(p, loc[p], TRUE, "revoked")
    /\ UNCHANGED <<now, ticks, authCodes, ncodes, ntok, hist>>

RvDelete(p) ==
    /\ pc[p] = "rv_delete"
    /\ \/ sessions' = Delete(sessions, loc[p].token) /\ RvReturn(p, loc[p], TRUE, "revoked")
       \/ UNCHANGED sessions /\ RvCaught(p, loc[p], TRUE, "revoked")
    /\ UNCHANGED <<now, ticks, authCodes, ncodes, ntok, hist>>

(***************************************************************************)
(* McpService: the CallToolRequestSchema handler.  It runs on the bearer   *)
(* token of a request that verifyAccessToken has accepted and reads the    *)
(* session again.                                                          *)
(***************************************************************************)
\* the messages of the AuthenticationError thrown by the handler
AuthenticationErrors ==
    {"Session not found or expired", "Failed to refresh access token"}

\* the catch of the handler: an AuthenticationError becomes an McpError with
\* ErrorCode.InvalidRequest, a GoogleAPIError one with ErrorCode.InternalError
McpErrorCode(error) ==
    IF error \in AuthenticationErrors THEN "InvalidRequest" ELSE "InternalError"

TcFail(p, l, error) ==
    Return(p, [op |-> "tool", ok |-> FALSE, token |-> l.token, error |-> error,
               code |-> McpErrorCode(error)])

\* listContacts, getContact, searchContacts, searchDirectoryContacts (the four
\* tools share every step before the call): the resource API answers, and the
\* answer goes to the caller, or it fails
TcCall(p, l) ==
    \/ Return(p, [op |-> "tool", ok |-> TRUE, token |-> l.token, content |-> ContactData])
    \/ TcFail(p, l, "Google API error")

\* googleOAuthClient.refreshAccessToken in the handler: a throw ends the call,
\* a reply without access_token leaves the session as it is
TcGoogle(p, l) ==
    \/ TcFail(p, l, "Failed to refresh access token")
    \/ TcCall(p, l)
    \/ \E access \in GoogleAccessValues,
          expiry_date \in {0} \cup {now + d : d \in GoogleLifetimes} :
         Goto(p, "tc_update", [access |-> access, expiresAt |-> OrDefault(expiry_date, now),
                               t |-> now] @@ l)

\* getSession(authInfo.token) and what the handler does with its answer
TcLookup(p, l) ==
    LET session == Lookup(sessions, l.token)
    IN IF ~Present(session) THEN TcFail(p, l, "Session not found or expired")
       ELSE IF SessionExpired(session, now) THEN Goto(p, "tc_expire", l)
       ELSE IF NeedsRefresh(session, now) /\ Has(session, "refreshToken")
       THEN TcGoogle(p, l)
       ELSE TcCall(p, l)

\* variant of TcGet that deletes the session when the upstream refresh throws
TcGetDropsOnFailure(p) ==
    /\ Free(p)
    /\ \E token \in KnownTokens :
         LET session == Lookup(sessions, token)
             l == [op |-> "tool", token |-> token]
         IN \/ TcLookup(p, l) /\ UNCHANGED sessions
            \/ /\ Present(session)
               /\ ~SessionExpired(session, now)
               /\ NeedsRefresh(session, now)
               /\ Has(session, "refreshToken")
               /\ TcFail(p, l, "Failed to refresh access token")
               /\ sessions' = Delete(sessions, token)
    /\ UNCHANGED <<now, ticks, authCodes, ncodes, ntok, hist>>

TcGet(p) ==
    /\ Free(p)
    /\ \E token \in KnownTokens : TcLookup(p, [op |-> "tool", token |-> token])
    /\ UNCHANGED <<now, ticks, authCodes, sessions, ncodes, ntok, hist>>

TcExpire(p) ==
    /\ pc[p] = "tc_expire"
    /\ sessions' = Delete(sessions, loc[p].token)
    /\ TcFail(p, loc[p], "Session not found or expired")
    /\ UNCHANGED <<now, ticks, authCodes, ncodes, ntok, hist>>

TcUpdate(p) ==
    /\ pc[p] = "tc_update"
    /\ sessions' = UpdateAccessToken(sessions, loc[p].token, loc[p].access,
                                     loc[p].expiresAt, loc[p].t)
    /\ TcCall(p, loc[p])
    /\ UNCHANGED <<now, ticks, authCodes, ncodes, ntok, hist>>

(***************************************************************************)
(* OAuthService.refreshAccessToken(sessionId)                              *)
(***************************************************************************)
OsFail(p, l, error) ==
    Return(p, [op |-> "service_refresh", ok |-> FALSE, sessionId |-> l.sessionId,
               error |-> error])

\* oauth2Client.refreshAccessToken inside the try block: it throws, it returns
\* no access_token (which throws inside the try), or it refreshes
OsGoogle(p, l) ==
    \/ Goto(p, "os_delete", [cause |-> "upstream refresh failed"] @@ l)
    \/ Goto(p, "os_delete", [cause |-> "No access token received from refresh"] @@ l)
    \/ \E access \in GoogleAccessValues,
          expiry_date \in {0} \cup {now + d : d \in GoogleLifetimes} :
         Goto(p, "os_update", [access |-> access, expiresAt |-> OrDefault(expiry_date, now),
                               t |-> now] @@ l)

OsGet(p) ==
    /\ Free(p)
    /\ \E sessionId \in KnownTokens :
         LET session == Lookup(sessions, sessionId)
             l == [op |-> "service_refresh", sessionId |-> sessionId]
         IN IF ~Present(session) THEN OsFail(p, l, "Session not found or expired")
            ELSE IF SessionExpired(session, now) THEN Goto(p, "os_expire", l)
            ELSE IF ~Has(session, "refreshToken")
            THEN OsFail(p, l, "No refresh token available")
            ELSE OsGoogle(p, l)
    /\ UNCHANGED <<now, ticks, authCodes, sessions, ncodes, ntok, hist>>

OsExpire(p) ==
    /\ pc[p] = "os_expire"
    /\ sessions' = Delete(sessions, loc[p].sessionId)
    /\ OsFail(p, loc[p], "Session not found or expired")
    /\ UNCHANGED <<now, ticks, authCodes, ncodes, ntok, hist>>

\* updateAccessToken inside the try block: the session is updated and the new
\* access value returned, or the command is rejected and the catch runs
OsUpdate(p) ==
    /\ pc[p] = "os_update"
    /\ \/ /\ sessions' = UpdateAccessToken(sessions, loc[p].sessionId, loc[p].access,
                                            loc[p].expiresAt, loc[p].t)
          /\ Return(p, [op |-> "service_refresh", ok |-> TRUE,
                        sessionId |-> loc[p].sessionId, accessToken |-> loc[p].access])
       \/ /\ UNCHANGED sessions
          /\ Goto(p, "os_delete", [op |-> "service_refresh", sessionId |-> loc[p].sessionId,
                                   cause |-> "UpdateCommand failed"])
    /\ UNCHANGED <<now, ticks, authCodes, ncodes, ntok, hist>>

\* the catch block: deleteSession, then AuthenticationError
OsDelete(p) ==
    /\ pc[p] = "os_delete"
    /\ sessions' = Delete(sessions, loc[p].sessionId)
    /\ Return(p, [op |-> "service_refresh", ok |-> FALSE, sessionId |-> loc[p].sessionId,
                  error |-> "Failed to refresh token", cause |-> loc[p].cause])
    /\ UNCHANGED <<now, ticks, authCodes, ncodes, ntok, hist>>

(***************************************************************************)
(* app.post('/mcp'): the Authorization header is checked, its bearer token *)
(* is verified, and the request goes to mcpService.handleRequest           *)
(***************************************************************************)
NoHeader == [scheme |-> "none"]
NeverIssued == "forged"
\* the values a client can put after "Bearer ": what it was given, the keys
\* of the refresh index, and a value of its own
PresentedValues == KnownTokens \cup {RefreshKey(t) : t \in KnownTokens} \cup {NeverIssued}
Headers ==
    {NoHeader} \cup [scheme : {"Basic", "Bearer"}, credentials : PresentedValues]

\* authHeader && authHeader.startsWith('Bearer ')
StartsWithBearer(header) == header # NoHeader /\ header.scheme = "Bearer"

\* variant of McpPost that verifies the credentials of every header
McpPostAnyScheme(p) ==
    /\ Free(p)
    /\ \E header \in Headers :
         IF header = NoHeader
         THEN Return(p, [op |-> "mcp", status |-> 401, error |-> "unauthorized",
                         header |-> header])
         ELSE VfLookup(p, [op |-> "verify", token |-> header.credentials,
                           header |-> header])
    /\ UNCHANGED <<now, ticks, authCodes, sessions, ncodes, ntok, hist>>

McpPost(p) ==
    /\ Free(p)
    /\ \E header \in Headers :
         IF ~StartsWithBearer(header)
         THEN Return(p, [op |-> "mcp", status |-> 401, error |-> "unauthorized",
                         header |-> header])
         ELSE VfLookup(p, [op |-> "verify", token |-> header.credentials,
                           header |-> header])
    /\ UNCHANGED <<now, ticks, authCodes, sessions, ncodes, ntok, hist>>

\* mcpService.handleRequest: the request is a tool call, which reads the
\* session of authInfo.token, or another MCP request, which is answered
McpHandle(p) ==
    /\ pc[p] = "mcp_handle"
    /\ \/ Return(p, [op |-> "mcp", status |-> 200, header |-> loc[p].header,
                      handled |-> TRUE])
       \/ TcLookup(p, [op |-> "tool", token |-> loc[p].authInfo.token])
    /\ UNCHANGED <<now, ticks, authCodes, sessions, ncodes, ntok, hist>>

(***************************************************************************)
(* Clock.  A request runs for at most 29 seconds (the Lambda timeout of     *)
(* the stack), so the clock, counted in minutes, advances between requests *)
(***************************************************************************)
TickBy(steps) ==
    /\ ticks < MaxTicks
    /\ \A p \in Procs : Idle(p)
    /\ \E d \in steps : now' = now + d
    /\ ticks' = ticks + 1
    /\ ret' = NoRet
    /\ UNCHANGED <<authCodes, sessions, ncodes, ntok, overlaps, pc, loc, hist>>

Tick == TickBy(TickSteps)

Init ==
    /\ now = 0
    /\ ticks = 0
    /\ authCodes = << >>
    /\ sessions = << >>
    /\ ncodes = 0
    /\ ntok = 0
    /\ overlaps = 0
    /\ pc = [p \in Procs |-> "idle"]
    /\ loc = [p \in Procs |-> NoRet]
    /\ ret = NoRet
    /\ hist = [exchanged |-> << >>, issued |-> << >>, madeFrom |-> << >>, returned |-> {}]

Step(p) ==
    \/ Authorize(p)
    \/ CbGet(p) \/ CbExpire(p) \/ CbGet2(p) \/ CbPut(p)
    \/ ExGet(p) \/ ExExpire(p) \/ ExPutSession(p) \/ ExPutIndex(p) \/ ExDelete(p)
    \/ RfGetIndex(p) \/ RfGetSession(p) \/ RfExpire(p)
    \/ RfUpdate(p) \/ RfPutSession(p) \/ RfPutIndex(p)
    \/ VfGet(p) \/ VfExpire(p) \/ VfUpdate(p) \/ VfExtend(p)
    \/ RvGet(p) \/ RvExpire(p) \/ RvDelete(p)
    \/ TcGet(p) \/ TcExpire(p) \/ TcUpdate(p)

Next == Tick \/ \E p \in Procs : Step(p)

Spec == Init /\ [][Next]_vars

NextSeq == Tick \/ \E p \in SeqProcs : Step(p)

SpecSeq == Init /\ [][NextSeq]_vars

(***************************************************************************)
(* One invocation at a time, with the clock read 5 minutes before the      *)
(* upstream expiry of a session (the edge of the refresh buffer), at the    *)
(* expiry and after it                                                      *)
(***************************************************************************)
TickNear == TickBy(NearSteps)

NextNear == TickNear \/ \E p \in SeqProcs : Step(p)

SpecNear == Init /\ [][NextNear]_vars

(***************************************************************************)
(* One invocation at a time, with the POST /mcp route                      *)
(***************************************************************************)
NextMcp ==
    \/ Tick
    \/ \E p \in SeqProcs : Step(p)
    \/ \E p \in SeqProcs : McpPost(p)
    \/ \E p \in SeqProcs : McpHandle(p)

SpecMcp == Init /\ [][NextMcp]_vars

(***************************************************************************)
(* One invocation at a time, with the GET /google/callback route           *)
(***************************************************************************)
NextCallback ==
    \/ Tick
    \/ \E p \in SeqProcs : Step(p)
    \/ \E p \in SeqProcs : GoogleCallback(p)
    \/ \E p \in SeqProcs : GcGet(p)

SpecCallback == Init /\ [][NextCallback]_vars

(***************************************************************************)
(* One invocation at a time, with OAuthService.refreshAccessToken          *)
(***************************************************************************)
NextService ==
    \/ Tick
    \/ \E p \in SeqProcs : Step(p)
    \/ \E p \in SeqProcs : OsGet(p) \/ OsExpire(p) \/ OsUpdate(p) \/ OsDelete(p)

SpecService == Init /\ [][NextService]_vars

(***************************************************************************)
(* Concurrent invocations of the authorization flow and of verify, with    *)
(* the clock read at any point of a request: the clock, counted in whole   *)
(* minutes, can pass to the next minute, and so past the upstream expiry   *)
(* of a session, between two commands of a request                         *)
(***************************************************************************)
TickDuring ==
    /\ ticks <= MaxTicks
    /\ \E d \in DuringSteps : now' = now + d
    /\ ticks' = ticks + 1
    /\ ret' = NoRet
    /\ UNCHANGED <<authCodes, sessions, ncodes, ntok, overlaps, pc, loc, hist>>

StepDuring(p) ==
    \/ Authorize(p)
    \/ CbGet(p) \/ CbExpire(p) \/ CbGet2(p) \/ CbPut(p)
    \/ ExGet(p) \/ ExExpire(p) \/ ExPutSession(p) \/ ExPutIndex(p) \/ ExDelete(p)
    \/ VfGet(p) \/ VfExpire(p) \/ VfUpdate(p) \/ VfExtend(p)

NextDuring == TickDuring \/ \E p \in Procs : StepDuring(p)

SpecDuring == Init /\ [][NextDuring]_vars

(***************************************************************************)
(* An upstream call that is never answered.  The calls to the upstream are *)
(* awaited without a timeout or an abort signal, so the request stays at   *)
(* the await; the only limit on it is the 29 seconds the stack gives the   *)
(* Lambda invocation, which ends the invocation, not the await.            *)
(***************************************************************************)
Usable(item, t) == Present(item) /\ ~SessionExpired(item, t)

AwaitUpstream(p, l) == Goto(p, "upstream", l)

UpstreamSilent(p) ==
    /\ \/ /\ Free(p)
          /\ \E state \in KnownCodes :
               LET authData == Lookup(authCodes, state) IN
               /\ Present(authData)
               /\ ~AuthCodeExpired(authData, now)
               /\ AwaitUpstream(p, [op |-> "callback", state |-> state])
       \/ /\ pc[p] = "rf_get_session"
          /\ Usable(Lookup(sessions, loc[p].sid), now)
          /\ AwaitUpstream(p, loc[p])
       \/ /\ Free(p)
          /\ \E token \in KnownTokens, op \in {"verify", "tool"} :
               LET session == Lookup(sessions, token) IN
               /\ Usable(session, now)
               /\ NeedsRefresh(session, now)
               /\ Has(session, "refreshToken")
               /\ AwaitUpstream(p, [op |-> op, token |-> token])
       \/ /\ Free(p)
          /\ \E token \in KnownTokens :
               /\ Usable(Lookup(sessions, token), now)
               /\ AwaitUpstream(p, [op |-> "revoke", token |-> token])
    /\ UNCHANGED <<now, ticks, authCodes, sessions, ncodes, ntok, hist>>

\* the invocation is ended by the platform: no handler code runs, no result of
\* the operation is produced
LambdaTimeout(p) ==
    /\ pc[p] = "upstream"
    /\ pc' = [pc EXCEPT ![p] = "idle"]
    /\ loc' = [loc EXCEPT ![p] = NoRet]
    /\ ret' = [op |-> "Task timed out", request |-> loc[p].op]
    /\ UNCHANGED <<now, ticks, authCodes, sessions, ncodes, ntok, overlaps, hist>>

NextSilent ==
    \/ Tick
    \/ \E p \in SeqProcs : Step(p)
    \/ \E p \in SeqProcs : UpstreamSilent(p)
    \/ \E p \in SeqProcs : LambdaTimeout(p)

SpecSilent == Init /\ [][NextSilent]_vars

(***************************************************************************)
(* Properties.  Age(item) is the age of a stored item at the current       *)
(* instant; TokenNumber orders the issued values by their time of issue.   *)
(***************************************************************************)
Age(item) == now - item.createdAt
TokenNumber(token) == CHOOSE n \in 1..ntok : RandomBytes(n) = token
SessionsMadeFrom(code) == {sid \in DOMAIN hist.madeFrom : hist.madeFrom[sid] = code}
Returned(op) == ret.op = op
ExchangePending(p) == pc[p] \in {"ex_put_session", "ex_put_index", "ex_delete"}
SessionLookupLapsed(p) == pc[p] \in {"vf_expire", "rv_expire", "rf_expire"}
LookedUpKey(p) == IF pc[p] = "rf_expire" THEN loc[p].sid ELSE loc[p].token
AsCreatedByExchange(session) ==
    /\ session.sessionId \in DOMAIN hist.madeFrom
    /\ Has(session, "mcpTokenExpiresAt")
    /\ session.updatedAt = session.createdAt
    /\ session.mcpTokenExpiresAt = session.createdAt + THIRTY_DAYS

\* the call of exchangeCode that has just failed was made on a record that is
\* unexpired, of the calling client, completed, and matched by the verifier
FailedOnValidCode ==
    LET data == Lookup(authCodes, ret.code)
    IN /\ Present(data)
       /\ Age(data) <= TEN_MINUTES_MS
       /\ data.clientId = ret.client
       /\ Has(data, "googleTokens")
       /\ S256(ret.codeVerifier) = data.codeChallenge

\* C1: exchangeCode on an unexpired record of the calling client that holds
\* upstream credentials and whose verifier hashes to the stored challenge
\* succeeds (a call that fails was not made on such a record, or the session
\* store rejected the write of its session); a code that was
\* exchanged has no record any more, so every later call with it fails, and
\* over a sequential history no code is exchanged successfully twice.
C1_ExchangeOnce ==
    /\ (Returned("exchange") /\ ~ret.ok /\ ret.error # PutFailed) => ~FailedOnValidCode
    /\ \A code \in DOMAIN hist.exchanged :
         /\ hist.exchanged[code] = 1
         /\ code \notin DOMAIN authCodes
    /\ (Returned("exchange") /\ ret.ok) => Count(hist.exchanged, ret.code) = 1

\* an exchangeCode call on a code that was already exchanged has just failed
C1_SecondExchangeFailed ==
    /\ Returned("exchange") /\ ~ret.ok
    /\ Count(hist.exchanged, ret.code) = 1

\* C2: of the exchangeCode calls that race on one completed code at most one
\* returns tokens, and at most one session record is created from the code.
C2_ExchangeRace ==
    \A code \in KnownCodes :
      /\ Count(hist.exchanged, code) <= 1
      /\ Cardinality(SessionsMadeFrom(code)) <= 1

\* C3: a code record older than 10 minutes makes exchangeCode fail, and the
\* lookup that finds it deletes it, completed by the callback or not; the
\* lookup treats as absent only records older than 10 minutes, so that a
\* record aged at most 10 minutes is returned to the exchange and the callback.
C3_TenMinuteCode ==
    /\ (Returned("exchange") /\ Has(ret, "lapsed")) =>
         /\ ~ret.ok
         /\ now - ret.lapsed.createdAt > TEN_MINUTES_MS
         /\ ret.code \notin DOMAIN authCodes
    /\ (Returned("exchange") /\ ~Has(ret, "lapsed")) =>
         (ret.code \in DOMAIN authCodes => Age(authCodes[ret.code]) <= TEN_MINUTES_MS)
    /\ \A p \in Procs :
         /\ pc[p] = "ex_expire" => Age(loc[p].lapsed) > TEN_MINUTES_MS
         /\ pc[p] = "cb_expire" => Age(Lookup(authCodes, loc[p].state)) > TEN_MINUTES_MS
         /\ ExchangePending(p) =>
              /\ loc[p].code \in DOMAIN authCodes
              /\ Age(authCodes[loc[p].code]) <= TEN_MINUTES_MS
         /\ pc[p] \in {"cb_get2", "cb_put"} =>
              /\ loc[p].state \in DOMAIN authCodes
              /\ Age(authCodes[loc[p].state]) <= TEN_MINUTES_MS

\* exchangeCode has just failed on a record that the callback had completed and
\* that was older than 10 minutes, and the record is gone
C3_ExpiredCompletedCode ==
    /\ Returned("exchange") /\ ~ret.ok /\ Has(ret, "lapsed")
    /\ Has(ret.lapsed, "googleTokens")
    /\ ret.code \notin DOMAIN authCodes

\* C4: a successful refresh with downstream refresh value R returns an access
\* value that no exchangeCode and no refresh has issued before, and returns R
\* as the refresh value; the session it supersedes and the session it creates
\* both carry R.
C4_FreshAccessSameRefresh ==
    /\ \A token \in DOMAIN hist.issued : hist.issued[token] = 1
    /\ (Returned("refresh") /\ ret.ok) =>
         /\ ret.refresh_token = ret.refreshToken
         /\ ret.access_token # ret.superseded
         /\ Count(hist.issued, ret.access_token) = 1
         /\ Lookup(sessions, ret.access_token).mcpRefreshToken = ret.refreshToken
         /\ Lookup(sessions, ret.superseded).mcpRefreshToken = ret.refreshToken

\* a refresh of a session that a refresh had created has just succeeded
C4_SecondRefresh ==
    /\ Returned("refresh") /\ ret.ok
    /\ ret.superseded \notin DOMAIN hist.madeFrom

C6_VerifyNeverLapses ==
    (Returned("verify") /\ Has(ret, "lapsed") /\ Has(ret.lapsed, "mcpTokenExpiresAt")
       /\ now < ret.lapsed.mcpTokenExpiresAt) => ret.ok

\* C7: the lookup by access token returns a session that exchangeCode created
\* at time t and that was not used since, at every time up to t + 30 days.
C7_ThirtyDayWindow ==
    \A p \in Procs :
      (SessionLookupLapsed(p) /\ LookedUpKey(p) \in DOMAIN sessions) =>
        ~(/\ AsCreatedByExchange(sessions[LookedUpKey(p)])
          /\ now <= sessions[LookedUpKey(p)].createdAt + THIRTY_DAYS)

\* revoke has just returned for a token that resolved to a live session, and no
\* command of the session store rejected
RevokedLive == Returned("revoke") /\ ret.resolved /\ ~Has(ret, "caught")

\* a verify(A) starts in this step, finds the session of A and goes on to succeed
VerifyFinds(p, token) ==
    /\ pc[p] = "idle"
    /\ pc'[p] \in {"vf_extend", "vf_update"}
    /\ loc'[p].token = token
    /\ Has(loc'[p].session, "scope")

\* C8: once revoke(A) has returned for an access value A that resolved to a
\* live session, the verify(A) that follows does not find the session of A
\* (its record is no longer in the store), so it fails.
C8_RevokedThenVerify ==
    [][RevokedLive => \A p \in Procs : ~VerifyFinds(p, ret.token)]_vars

\* C9: whenever revoke resolves a session, the session record is deleted by
\* the time revoke returns, whether the upstream revocation succeeded or threw.
C9_RevokeCleansUp ==
    RevokedLive => ret.token \notin DOMAIN sessions

\* C10: after revoke(R) has returned for a downstream refresh value R, the
\* session that the refresh index of R resolves to is not in the store.
C10_RevokeByRefreshValue ==
    Returned("revoke") =>
      LET index == Lookup(sessions, RefreshKey(ret.token))
      IN Present(index) => index.accessTokenSessionId \notin DOMAIN sessions
\* C11: revokeToken returns normally for every token argument (never issued a
\* session, expired, live), whatever the upstream revocation and the commands
\* of the session store inside it do.
C11_RevokeNeverFails ==
    Returned("revoke") => ret.ok

\* revoke has just returned although the upstream revocation threw
C11_RevokeSwallowedUpstream ==
    Returned("revoke") /\ ret.ok /\ ret.upstream = "threw"
\* the refresh request of p fails in this step because the upstream refresh
\* call threw a transient error or returned no access value
UpstreamRefreshFails(p) ==
    /\ pc[p] = "rf_get_session"
    /\ ret'.op = "refresh" /\ ~ret'.ok
    /\ ret'.error \in {"upstream refresh failed", "Failed to refresh Google access token"}

\* C12: when refresh(R) has resolved a session and the upstream refresh fails
\* with a transient error, refresh fails and no step of the call has changed
\* the session store: the resolved session and the index of R are still
\* there and no session was written.
C12_TransientFailureKeepsStore ==
    [][\A p \in Procs :
         /\ (pc[p] = "idle" /\ pc'[p] = "rf_get_session") => sessions' = sessions
         /\ UpstreamRefreshFails(p) =>
              /\ sessions' = sessions
              /\ loc[p].sid \in DOMAIN sessions'
              /\ RefreshKey(loc[p].refreshToken) \in DOMAIN sessions'
              /\ ntok' = ntok]_vars

\* refresh has just failed on a transient upstream error and the session that
\* the index of R names is in the store
C12_FailedRefreshKeptSession ==
    /\ Returned("refresh") /\ ~ret.ok /\ ret.error = "upstream refresh failed"
    /\ RefreshKey(ret.refreshToken) \in DOMAIN sessions
    /\ sessions[RefreshKey(ret.refreshToken)].accessTokenSessionId \in DOMAIN sessions

\* C13: when refresh(R) has resolved a session and the upstream reports the
\* upstream refresh token as revoked or invalid, refresh fails and the resolved
\* session is no longer in the store when refresh returns.
C13_RevokedUpstreamDropsSession ==
    (Returned("refresh") /\ Has(ret, "error") /\ ret.error = "invalid_grant") =>
      /\ ~ret.ok
      /\ LET index == Lookup(sessions, RefreshKey(ret.refreshToken))
         IN Present(index) => index.accessTokenSessionId \notin DOMAIN sessions
\* the verify request of p is past an upstream refresh that failed
RefreshCaught(p) ==
    pc[p] = "vf_extend" /\ Has(loc[p], "caught")

\* C14: when verify(A) resolves a live session and the upstream refresh inside
\* it fails, verify returns the clientId and scopes of the session, and the
\* session stays in the store with the upstream access value and upstream
\* expiry it had; a verify fails only on a token without a stored session.
C14_VerifySurvivesFailedRefresh ==
    [][/\ \A p \in Procs :
            /\ (pc[p] = "idle" /\ pc'[p] = "vf_extend" /\ Has(loc'[p], "caught"))
                 => sessions' = sessions
            /\ RefreshCaught(p) =>
                 LET A == loc[p].token
                 IN /\ A \in DOMAIN sessions /\ A \in DOMAIN sessions'
                    /\ sessions'[A].accessToken = sessions[A].accessToken
                    /\ sessions'[A].expiresAt = sessions[A].expiresAt
                    /\ ret'.op = "verify" /\ ret'.ok /\ ret'.token = A
                    /\ ret'.clientId = sessions[A].clientId
                    /\ ret'.scopes = Split(sessions[A].scope)
       /\ (ret'.op = "verify" /\ ~ret'.ok) => ret'.token \notin DOMAIN sessions']_vars

\* verify has just succeeded on a session whose upstream access value is still
\* within the refresh buffer: the upstream refresh inside it failed
C14_VerifiedOnStaleUpstream ==
    /\ Returned("verify") /\ ret.ok
    /\ ret.token \in DOMAIN sessions
    /\ Has(sessions[ret.token], "refreshToken")
    /\ NeedsRefresh(sessions[ret.token], now)
\* C15: at the moment exchangeCode returns (A, R), lookup by A finds a session
\* record and the refresh index of R names that same record, for every
\* completed code record, with or without a userEmail.
C15_ExchangeLeavesSession ==
    (Returned("exchange") /\ ret.ok) =>
      /\ ret.access_token \in DOMAIN sessions
      /\ RefreshKey(ret.refresh_token) \in DOMAIN sessions
      /\ sessions[RefreshKey(ret.refresh_token)].accessTokenSessionId = ret.access_token

\* C16: whenever a step of exchangeCode removes the code record, the session
\* and the refresh index of that exchange are already in the store.
C16_DeleteAfterSave ==
    [][\A p \in Procs :
         (/\ pc[p] = "ex_delete"
          /\ loc[p].code \in DOMAIN authCodes
          /\ loc[p].code \notin DOMAIN authCodes') =>
           /\ loc[p].accessToken \in DOMAIN sessions
           /\ RefreshKey(loc[p].mcpRefreshToken) \in DOMAIN sessions]_vars
\* the fields saveSession writes for a session of exchangeRefreshToken
SessionComplete(session) ==
    {"sessionId", "clientId", "userEmail", "accessToken", "mcpRefreshToken", "expiresAt",
     "mcpTokenExpiresAt", "tokenType", "scope", "ttl"} \subseteq DOMAIN session

\* the refresh request of q writes the refresh index and returns in this step
RefreshReturns(q) == pc[q] = "rf_put_index" /\ pc'[q] = "idle"

\* p is inside a refresh on the refresh value of q, past a successful upstream call
RefreshingSame(p, q) ==
    /\ p # q
    /\ pc[p] \in {"rf_update", "rf_put_session", "rf_put_index"}
    /\ loc[p].refreshToken = loc[q].refreshToken

\* C17: when two refresh(R) calls overlap and both succeed upstream, each call
\* adds exactly one session key, the access value each returns names its own
\* session record (complete when the session the call resolved was), and each
\* return leaves the refresh index of R on the session of the call that wrote
\* it last: a stored session of one of the two calls, never the superseded one.
C17_ConcurrentRefresh ==
    [][\A q \in Procs :
         /\ pc[q] = "rf_put_session" /\ pc'[q] = "rf_put_index" =>
              DOMAIN sessions' = DOMAIN sessions \cup {loc[q].sessionData.sessionId}
         /\ RefreshReturns(q) =>
              LET new == loc[q].sessionData.sessionId
                  R == loc[q].refreshToken
                  index == sessions'[RefreshKey(R)]
              IN /\ DOMAIN sessions' = DOMAIN sessions \cup {RefreshKey(R)}
                 /\ ret'.ok /\ ret'.access_token = new /\ ret'.refresh_token = R
                 /\ new \in DOMAIN sessions'
                 /\ sessions'[new].sessionId = new
                 /\ sessions'[new].mcpRefreshToken = R
                 /\ {"clientId", "userEmail", "scope"} \subseteq DOMAIN loc[q].sessionData
                      => SessionComplete(sessions'[new])
                 /\ index.accessTokenSessionId = new
                 /\ new # loc[q].sid
                 /\ \A p \in Procs :
                      (RefreshingSame(p, q) /\ pc[p] = "rf_put_index") =>
                        /\ loc[p].sessionData.sessionId # new
                        /\ loc[p].sessionData.sessionId \in DOMAIN sessions'
                        /\ index.accessTokenSessionId # loc[p].sid
                 /\ (Returned("refresh") /\ ret.ok /\ ret.refresh_token = R) =>
                        /\ ret.access_token # new
                        /\ ret.access_token \in DOMAIN sessions'
                        /\ sessions'[ret.access_token].sessionId = ret.access_token
                        /\ index.accessTokenSessionId \in {new, ret.access_token}
                        /\ index.accessTokenSessionId \notin {ret.superseded, loc[q].sid}]_vars

\* the second of two overlapping refresh(R) calls has just returned: besides
\* its own new session the store holds a session of R that is newer than the
\* one this call resolved
C17_BothRefreshesReturned ==
    /\ Returned("refresh") /\ ret.ok
    /\ \A p \in Procs : pc[p] = "idle"
    /\ sessions[RefreshKey(ret.refresh_token)].accessTokenSessionId = ret.access_token
    /\ \E other \in hist.returned \cap DOMAIN sessions :
         /\ other \notin {ret.access_token, ret.superseded}
         /\ Has(sessions[other], "mcpRefreshToken")
         /\ sessions[other].mcpRefreshToken = ret.refresh_token
         /\ TokenNumber(other) > TokenNumber(ret.superseded)
\* a code record without the fields the upstream callback writes
WithoutUpstream(item) ==
    [k \in DOMAIN item \ {"googleAuthCode", "googleTokens"} |-> item[k]]

\* C18: the createdAt and ttl that saveAuthCode wrote (ttl ten minutes after
\* createdAt) are the same in every later state in which the record exists;
\* a step on an existing record, updateWithGoogleTokens included, changes
\* nothing but its upstream code and upstream credentials.
C18_ExpiryFixedAtCreation ==
    /\ [](\A code \in DOMAIN authCodes :
            authCodes[code].ttl = authCodes[code].createdAt + TEN_MINUTES)
    /\ [][\A code \in DOMAIN authCodes \cap DOMAIN authCodes' :
            /\ authCodes'[code].createdAt = authCodes[code].createdAt
            /\ authCodes'[code].ttl = authCodes[code].ttl
            /\ WithoutUpstream(authCodes'[code]) = WithoutUpstream(authCodes[code])]_vars

\* a record completed by the upstream callback is in the store some minutes
\* after its creation
C18_CompletedRecordAged ==
    \E code \in DOMAIN authCodes :
      /\ Has(authCodes[code], "googleTokens")
      /\ now > authCodes[code].createdAt
\* C19: once the upstream callback has written upstream credentials into a
\* code record, no later step changes the upstream code or the upstream
\* credentials of that record while it is stored.
C19_CallbackWritesOnce ==
    [][\A code \in DOMAIN authCodes \cap DOMAIN authCodes' :
         Has(authCodes[code], "googleTokens") =>
           /\ Has(authCodes'[code], "googleTokens")
           /\ authCodes'[code].googleTokens = authCodes[code].googleTokens
           /\ authCodes'[code].googleAuthCode = authCodes[code].googleAuthCode]_vars

\* C20: a code that a successful exchangeCode has consumed has no record in
\* any later state, whatever callback was in flight when it was deleted.
C20_ExchangedIsTerminal ==
    \A code \in DOMAIN hist.exchanged : code \notin DOMAIN authCodes
\* the request of p sends the UpdateCommand of updateAccessToken in its next step
UpdatePending(p) == pc[p] \in {"rf_update", "vf_update", "tc_update"}
UpdatedKey(p) == IF pc[p] = "rf_update" THEN loc[p].sid ELSE loc[p].token

\* C21: updateAccessToken on a sessionId without a record writes nothing: the
\* step that sends it for an absent key leaves that key absent.
C21_UpdateNeedsRecord ==
    [][\A p \in Procs :
         (UpdatePending(p) /\ pc'[p] # pc[p] /\ UpdatedKey(p) \notin DOMAIN sessions)
           => UpdatedKey(p) \notin DOMAIN sessions']_vars

\* the instants from now on at which getSession still returns the session
AcceptedAt(session) ==
    {t \in now..(now + 2 * ONE_HOUR) : ~SessionExpired(session, t)}

\* C22: updateAccessToken on an existing session changes only accessToken,
\* expiresAt and updatedAt: every other field of the record is as before, and
\* so are the instants at which lookup by access token accepts the session.
C22_UpdateTouchesUpstreamOnly ==
    [][\A p \in Procs :
         (UpdatePending(p) /\ pc'[p] # pc[p] /\ UpdatedKey(p) \in DOMAIN sessions) =>
           LET before == sessions[UpdatedKey(p)]
               after == sessions'[UpdatedKey(p)]
           IN /\ DOMAIN after = DOMAIN before
              /\ \A k \in DOMAIN before \ {"accessToken", "expiresAt", "updatedAt"} :
                   after[k] = before[k]
              /\ AcceptedAt(after) = AcceptedAt(before)]_vars
\* the request of p is inside saveSession, before or after its first write
SavePending(p) ==
    pc[p] \in {"ex_put_session", "ex_put_index", "rf_put_session", "rf_put_index"}

\* the refresh index of refreshToken names sessionId
IndexNames(refreshToken, sessionId) ==
    LET index == Lookup(sessions, RefreshKey(refreshToken))
    IN Present(index) /\ Has(index, "accessTokenSessionId")
       /\ index.accessTokenSessionId = sessionId

\* C23: in every state inside a saveSession the refresh index of R names the
\* session being saved only if that session's record is in the store, and
\* after a save whose first write was rejected the index does not name the
\* session that was not written.
C23_IndexAfterSession ==
    /\ \A p \in Procs :
         SavePending(p) =>
           LET data == loc[p].sessionData
           IN /\ IndexNames(data.mcpRefreshToken, data.sessionId)
                   => data.sessionId \in DOMAIN sessions
              /\ pc[p] \in {"ex_put_session", "rf_put_session"}
                   => ~IndexNames(data.mcpRefreshToken, data.sessionId)
    /\ (Has(ret, "saving") /\ ret.error = PutFailed) =>
         /\ ret.saving \notin DOMAIN sessions
         /\ ~IndexNames(ret.refreshToken, ret.saving)

\* a refresh has just failed because the first write of its saveSession was
\* rejected, and the refresh index of R still names a stored session
C23_SaveFailedIndexIntact ==
    /\ Returned("refresh") /\ Has(ret, "saving") /\ ret.error = PutFailed
    /\ RefreshKey(ret.refreshToken) \in DOMAIN sessions
    /\ sessions[RefreshKey(ret.refreshToken)].accessTokenSessionId \in DOMAIN sessions
\* the request of p sends the DeleteCommand of deleteSession in this step
Deletes(p) ==
    /\ pc[p] \in {"vf_expire", "rv_expire", "rf_expire", "tc_expire", "rv_delete"}
    /\ pc'[p] = "idle"

IsIndex(item) == Has(item, "accessTokenSessionId")

\* C24: deleteSession removes at most the record keyed by its sessionId and
\* leaves every other record as it is; on an absent sessionId it changes
\* nothing and the request goes on; it never removes or changes a refresh
\* index record, so an index that names a newer session still names it, and
\* that session is still stored, after an older session was deleted.
C24_DeleteOnlyItsKey ==
    [][\A p \in Procs :
         Deletes(p) =>
           LET key == LookedUpKey(p)
           IN /\ DOMAIN sessions \ {key} \subseteq DOMAIN sessions'
              /\ DOMAIN sessions' \subseteq DOMAIN sessions
              /\ \A k \in DOMAIN sessions' : sessions'[k] = sessions[k]
              /\ key \notin DOMAIN sessions => sessions' = sessions
              /\ \A k \in DOMAIN sessions :
                   IsIndex(sessions[k]) =>
                     /\ k \in DOMAIN sessions' /\ sessions'[k] = sessions[k]
                     /\ (sessions[k].accessTokenSessionId \in DOMAIN sessions \ {key})
                          => sessions'[k].accessTokenSessionId \in DOMAIN sessions']_vars

\* revoke has just deleted a session and the refresh index of its lineage
\* names a newer session that is in the store
C24_OlderDeletedNewerIndexed ==
    /\ RevokedLive /\ ret.token \notin DOMAIN sessions
    /\ \E k \in DOMAIN sessions :
         /\ IsIndex(sessions[k])
         /\ sessions[k].accessTokenSessionId \in DOMAIN sessions
         /\ TokenNumber(sessions[k].accessTokenSessionId) > TokenNumber(ret.token)
\* the code record gives exchangeCode a reason to fail: absent, expired, of
\* another client, or not completed by the upstream callback
Unexchangeable(data, client) ==
    \/ ~Present(data)
    \/ AuthCodeExpired(data, now)
    \/ data.clientId # client
    \/ ~Has(data, "googleTokens")

\* C25: an exchangeCode call on a code record that is absent, expired, of
\* another client or without upstream credentials fails; no step of the call
\* writes the session store, and a record that is not expired is left as it is
\* (so the right client can still exchange it once it is completed).
C25_RejectedExchangeKeepsRecord ==
    [][/\ ((\A q \in Procs : pc[q] = "idle") /\ ret'.op = "exchange"
           /\ Unexchangeable(Lookup(authCodes, ret'.code), ret'.client)) =>
            /\ ~ret'.ok
            /\ sessions' = sessions /\ ntok' = ntok
            /\ authCodes' = authCodes
       /\ \A p \in Procs :
            /\ (pc[p] = "idle" /\ pc'[p] = "ex_expire") =>
                 /\ AuthCodeExpired(authCodes[loc'[p].code], now)
                 /\ sessions' = sessions /\ ntok' = ntok /\ authCodes' = authCodes
            /\ (pc[p] = "idle" /\ pc'[p] \in {"ex_put_session", "ex_delete"}) =>
                 ~Unexchangeable(Lookup(authCodes, loc'[p].code), loc'[p].client)
            /\ pc[p] = "ex_expire" =>
                 /\ ret'.op = "exchange" /\ ~ret'.ok
                 /\ sessions' = sessions /\ ntok' = ntok
                 /\ authCodes' = Delete(authCodes, loc[p].code)]_vars

\* exchangeCode by another client has just failed on a completed, unexpired
\* record, and the record is in the store as the callback left it
C25_WrongClientRecordKept ==
    /\ Returned("exchange") /\ ~ret.ok
    /\ ret.code \in DOMAIN authCodes
    /\ authCodes[ret.code].clientId # ret.client
    /\ Has(authCodes[ret.code], "googleTokens")
    /\ ~AuthCodeExpired(authCodes[ret.code], now)
\* the verifier given to exchangeCode does not hash to the challenge of the record
VerifierMismatch(data, codeVerifier) ==
    codeVerifier # NoVerifier /\ S256(codeVerifier) # data.codeChallenge

\* C26: exchangeCode with a verifier whose digest differs from the stored
\* codeChallenge fails and writes nothing: no session is created and the code
\* record stays as it is; an exchange that goes on to issue tokens was given
\* no verifier or the matching one, and a call with the matching verifier on
\* an exchangeable record does not fail.
C26_WrongVerifierKeepsCode ==
    [][/\ ((\A q \in Procs : pc[q] = "idle") /\ ret'.op = "exchange") =>
            LET data == Lookup(authCodes, ret'.code)
            IN /\ (~Unexchangeable(data, ret'.client)
                    /\ VerifierMismatch(data, ret'.codeVerifier)) =>
                      /\ ~ret'.ok /\ ret'.error = "Invalid code verifier"
                      /\ sessions' = sessions /\ ntok' = ntok
                      /\ authCodes' = authCodes
               /\ (~Unexchangeable(data, ret'.client)
                    /\ ~VerifierMismatch(data, ret'.codeVerifier)) => ret'.ok
       /\ \A p \in Procs :
            (pc[p] = "idle" /\ pc'[p] \in {"ex_put_session", "ex_delete"}) =>
              ~VerifierMismatch(authCodes[loc'[p].code], loc'[p].codeVerifier)]_vars

\* exchangeCode has just failed on the verifier alone, and the completed,
\* unexpired record of the calling client is still in the store
C26_WrongVerifierRejected ==
    /\ Returned("exchange") /\ ~ret.ok /\ ret.error = "Invalid code verifier"
    /\ ret.code \in DOMAIN authCodes
    /\ ~Unexchangeable(authCodes[ret.code], ret.client)
    /\ VerifierMismatch(authCodes[ret.code], ret.codeVerifier)
\* getAuthCode finds no record for the code: none is stored, or the stored one expired
NotFound(code) ==
    ~Present(Lookup(authCodes, code)) \/ AuthCodeExpired(Lookup(authCodes, code), now)

\* C27: handleGoogleCallback on a correlation code whose record is absent or
\* expired fails without an upstream call (the upstream is asked only for a
\* record that was found), and updateWithGoogleTokens on such a record fails
\* without its put; in both no record is created and no stored record is
\* changed, the one store command being the removal of the expired record by
\* the lookup.
C27_CallbackNeedsRecord ==
    [][/\ (ret'.op = "callback" /\ ~ret'.ok /\ ret'.error = "Invalid state parameter") =>
            /\ NotFound(ret'.state)
            /\ authCodes' = Delete(authCodes, ret'.state)
       /\ (ret'.op = "callback" /\ ~ret'.ok
            /\ ret'.error = "No access token received from Google") =>
            ~NotFound(ret'.state) /\ authCodes' = authCodes
       /\ \A p \in Procs :
            /\ (pc[p] = "idle" /\ pc'[p] = "cb_get2") => ~NotFound(loc'[p].state)
            /\ (pc[p] = "idle" /\ pc'[p] = "cb_expire") =>
                 /\ NotFound(loc'[p].state) /\ ~Has(loc'[p], "googleTokens")
                 /\ authCodes' = authCodes
            /\ (pc[p] = "cb_get2" /\ pc'[p] # pc[p] /\ NotFound(loc[p].state)) =>
                 /\ pc'[p] # "cb_put"
                 /\ authCodes' = authCodes
                 /\ pc'[p] = "idle" => ~ret'.ok
            /\ (pc[p] = "cb_expire" /\ pc'[p] = "idle") =>
                 /\ ~ret'.ok
                 /\ authCodes' = Delete(authCodes, loc[p].state)]_vars

\* the callback has just failed on a correlation code whose record had been
\* created and is not in the store any more
C27_CallbackOnMissingRecord ==
    /\ Returned("callback") /\ ~ret.ok /\ ret.error = "Invalid state parameter"
    /\ ret.state \in KnownCodes
    /\ ret.state \notin DOMAIN authCodes
\* C28: the scope returned by exchangeCode, the scope stored in the session it
\* creates, the scope returned by a refresh and stored in the session that the
\* refresh creates, and the scopes returned by verify are the same scope
\* strings.
C28_ScopePreserved ==
    /\ (Returned("exchange") /\ ret.ok /\ ret.access_token \in DOMAIN sessions) =>
         /\ ret.scope = sessions[ret.access_token].scope
         /\ Split(ret.scope) = Split(sessions[ret.access_token].scope)
    /\ (Returned("refresh") /\ ret.ok) =>
         /\ ret.scope = sessions[ret.access_token].scope
         /\ ret.superseded \in DOMAIN sessions
              => sessions[ret.superseded].scope = ret.scope
    /\ (Returned("verify") /\ ret.ok /\ ret.token \in DOMAIN sessions) =>
         ret.scopes = Split(sessions[ret.token].scope)
\* a step of the tool-call handler of p, and the bearer token of the call
ToolStep(p) ==
    \/ pc[p] = "idle" /\ pc'[p] \in {"tc_expire", "tc_update"}
    \/ pc[p] \in {"tc_expire", "tc_update"} /\ pc'[p] = "idle"
    \/ pc[p] = "idle" /\ ret'.op = "tool" /\ pc' = pc
ToolToken(p) == IF pc[p] = "idle" THEN (IF pc'[p] = "idle" THEN ret'.token ELSE loc'[p].token)
                ELSE loc[p].token

\* no stored record holds what the resource API returned
TextFields ==
    {"sessionId", "clientId", "userEmail", "accessToken", "refreshToken", "mcpRefreshToken",
     "tokenType", "scope", "accessTokenSessionId", "authCode", "codeChallenge",
     "redirectUri", "state", "googleAuthCode"}
HoldsContactData(item) == \E f \in DOMAIN item \cap TextFields : item[f] = ContactData
NoContactData ==
    /\ \A k \in DOMAIN sessions : ~HoldsContactData(sessions[k])
    /\ \A k \in DOMAIN authCodes :
         /\ ~HoldsContactData(authCodes[k])
         /\ Has(authCodes[k], "googleTokens") => ~HoldsContactData(authCodes[k].googleTokens)

\* C29: a step of a tool call leaves the code store alone, creates and deletes
\* no session record, leaves every session but the caller's as it is and
\* changes of the caller's session at most accessToken, expiresAt, ttl and
\* updatedAt; what the resource API returned is in no store.
C29_ToolCallFrame ==
    /\ []NoContactData
    /\ [][\A p \in Procs :
            ToolStep(p) =>
              /\ authCodes' = authCodes
              /\ DOMAIN sessions' = DOMAIN sessions
              /\ \A k \in DOMAIN sessions \cap DOMAIN sessions' :
                   /\ k # ToolToken(p) => sessions'[k] = sessions[k]
                   /\ DOMAIN sessions'[k] = DOMAIN sessions[k]
                   /\ \A f \in DOMAIN sessions[k]
                                \ {"accessToken", "expiresAt", "ttl", "updatedAt"} :
                        sessions'[k][f] = sessions[k][f]]_vars

AwaitsUpstream(p) == pc[p] = "upstream"

\* C30: a request whose upstream call is never answered leaves the wait by
\* returning a result of its own operation (the failure a timeout on the call
\* would surface), so that every started operation returns.
C30_UnansweredCallReturns ==
    [][\A p \in Procs :
         (AwaitsUpstream(p) /\ ~AwaitsUpstream(p)')
            => (ret'.op = loc[p].op /\ Has(ret', "ok") /\ ~ret'.ok)]_vars

\* the step of p is the lookup of verifyAccessToken and it returned a session
VerifyResolves(p) ==
    Idle(p) /\ pc'[p] \in {"vf_update", "vf_extend"}

\* that lookup was followed by a call to the upstream
VerifyCalledUpstream(p) ==
    pc'[p] = "vf_update" \/ Has(loc'[p], "caught")

UpstreamFields == {"accessToken", "expiresAt"}

\* C31: verify calls the upstream exactly when the session it resolved expires
\* upstream in less than 5 minutes and holds an upstream refresh value; a
\* successful refresh puts the refreshed access value and expiry in the record,
\* and a verify that goes on without a refreshed value has left both as they were.
C31_VerifyRefreshesInBuffer ==
    [][\A p \in Procs :
         /\ VerifyResolves(p) =>
              LET session == sessions[loc'[p].token]
              IN /\ VerifyCalledUpstream(p) <=>
                      (/\ session.expiresAt - now < expiryBuffer
                       /\ Has(session, "refreshToken"))
                 /\ sessions' = sessions
         /\ (pc[p] = "vf_update" /\ pc'[p] # pc[p]) =>
              /\ sessions'[loc[p].token].accessToken = loc[p].access
              /\ sessions'[loc[p].token].expiresAt = loc[p].expiresAt
              /\ loc[p].access \in GoogleAccessValues
         /\ (VerifyResolves(p) /\ pc'[p] = "vf_extend") =>
              /\ loc'[p].token \in DOMAIN sessions'
              /\ \A k \in UpstreamFields :
                   sessions'[loc'[p].token][k] = sessions[loc'[p].token][k]]_vars

\* a verify found its session exactly 5 minutes before the upstream expiry and
\* went on without calling the upstream
C31_AtBufferEdgeNoRefresh ==
    \E p \in Procs :
      /\ pc[p] = "vf_extend"
      /\ ~Has(loc[p], "caught")
      /\ loc[p].token \in DOMAIN sessions
      /\ Has(sessions[loc[p].token], "refreshToken")
      /\ sessions[loc[p].token].expiresAt - now = expiryBuffer

\* a verify refreshed upstream and the record holds the refreshed values
C31_RefreshedInBuffer ==
    \E p \in Procs :
      /\ pc[p] = "vf_extend"
      /\ loc[p].token \in DOMAIN sessions
      /\ sessions[loc[p].token].accessToken \in GoogleAccessValues
      /\ sessions[loc[p].token].expiresAt > now + expiryBuffer
      /\ Has(sessions[loc[p].token], "updatedAt")
      /\ sessions[loc[p].token].updatedAt = now
      /\ now > 0

\* the request of p is a POST /mcp request inside verifyAccessToken
McpVerifying(p) ==
    pc[p] \in {"vf_expire", "vf_update", "vf_extend"} /\ Has(loc[p], "header")

\* the last step answered a POST /mcp request with 401
Answered401 == Returned("mcp") /\ ret.status = 401

\* C32: a POST /mcp request is handed to the MCP service only by the step that
\* ends a successful verifyAccessToken on the bearer token of its header; a
\* request without a Bearer header is answered 401 in one step that leaves the
\* stores alone and never starts a lookup; a failed verification is answered
\* 401, and a request answered 401 was not handed over.
C32_McpBehindVerify ==
    /\ [][\A p \in Procs :
            /\ (pc'[p] = "mcp_handle" /\ pc[p] # "mcp_handle") =>
                 /\ pc[p] = "vf_extend"
                 /\ McpVerifying(p)
                 /\ StartsWithBearer(loc[p].header)
                 /\ loc'[p].header = loc[p].header
                 /\ loc'[p].authInfo.ok
                 /\ loc'[p].authInfo.token = loc[p].header.credentials
                 /\ loc[p].header.credentials \in DOMAIN sessions'
                 /\ ~SessionExpired(sessions'[loc[p].header.credentials], now)
            /\ (McpVerifying(p) /\ pc'[p] # pc[p]) =>
                 \/ McpVerifying(p)'
                 \/ pc'[p] = "mcp_handle"
                 \/ Idle(p)' /\ Answered401' /\ ret'.header = loc[p].header
            /\ (Idle(p) /\ Idle(p)' /\ Returned("mcp")' /\ ~StartsWithBearer(ret'.header)) =>
                 /\ Answered401'
                 /\ sessions' = sessions
                 /\ authCodes' = authCodes]_vars
    /\ [](\A p \in Procs : Has(loc[p], "header") => StartsWithBearer(loc[p].header))
    /\ [](Answered401 => ~Has(ret, "handled"))
    /\ []((Returned("mcp") /\ Has(ret, "handled")) => StartsWithBearer(ret.header))

\* a request was handed to the MCP service after its bearer token verified
C32_HandedOverAfterVerify ==
    \E p \in Procs :
      /\ pc[p] = "mcp_handle"
      /\ loc[p].authInfo.token = loc[p].header.credentials

\* a request with a scheme other than Bearer in front of a live access value was answered 401
C32_NonBearerRefused ==
    /\ Answered401
    /\ ret.header # NoHeader
    /\ ret.header.scheme # "Bearer"
    /\ ret.header.credentials \in DOMAIN sessions

CarriedFields == {"clientId", "userEmail", "scope", "refreshToken"}

\* C33: when refresh(R) returns its tokens, the record of the new access value
\* has the clientId, userEmail, scope and upstream refresh value of the session
\* R resolved to, and the upstream access value and expiry the upstream has
\* just returned.
C33_RefreshCarriesBinding ==
    [][\A p \in Procs :
         (pc[p] = "rf_put_index" /\ Idle(p)' /\ Returned("refresh")' /\ ret'.ok) =>
            /\ ret'.access_token \in DOMAIN sessions'
            /\ loc[p].sid \in DOMAIN sessions'
            /\ LET new == sessions'[ret'.access_token]
                   resolved == sessions'[loc[p].sid]
               IN /\ \A k \in CarriedFields :
                       /\ Has(new, k) <=> Has(resolved, k)
                       /\ Has(new, k) => new[k] = resolved[k]
                  /\ new.accessToken = loc[p].access
                  /\ new.accessToken \in GoogleAccessValues
                  /\ new.expiresAt = loc[p].expiresAt
                  /\ new.expiresAt \in {now + ONE_HOUR} \cup {now + d : d \in GoogleLifetimes}]_vars

\* a refresh returned, and its new session has the client, the user, the scope
\* and the upstream refresh value of the session it superseded
C33_RefreshedWithBinding ==
    /\ Returned("refresh")
    /\ ret.ok
    /\ ret.access_token \in DOMAIN sessions
    /\ ret.superseded \in DOMAIN sessions
    /\ \A k \in CarriedFields :
         /\ Has(sessions[ret.access_token], k)
         /\ sessions[ret.access_token][k] = sessions[ret.superseded][k]

\* the last step answered a GET /google/callback request
RouteAnswered == Returned("google_callback")

\* C34: the step that ends a callback request after handleGoogleCallback has
\* completed redirects to the redirectUri of the record of the correlation
\* code, with code equal to that correlation code and state equal to the state
\* stored at authorize; a request with an error parameter, or without code or
\* state, is answered in one step that leaves the stores alone, is never
\* started on a record, and is not redirected.
C34_CallbackRedirect ==
    /\ [][\A p \in Procs :
            /\ (pc[p] = "gc_get" /\ pc'[p] # pc[p]) =>
                 /\ Idle(p)'
                 /\ RouteAnswered'
                 /\ ret'.status = 302
                 /\ loc[p].state \in DOMAIN authCodes
                 /\ Has(authCodes[loc[p].state], "googleTokens")
                 /\ ret'.location.redirectUri = authCodes[loc[p].state].redirectUri
                 /\ ret'.location.code = loc[p].query.state
                 /\ ret'.location.code = authCodes[loc[p].state].authCode
                 /\ ret'.location.state = authCodes[loc[p].state].state
                 /\ authCodes' = authCodes
            /\ (Idle(p) /\ Idle(p)' /\ RouteAnswered' /\ ~WellFormed(ret'.query)) =>
                 /\ ret'.status = 400
                 /\ ~Has(ret', "location")
                 /\ authCodes' = authCodes
                 /\ sessions' = sessions]_vars
    /\ [](\A p \in Procs : Has(loc[p], "query") => WellFormed(loc[p].query))
    /\ []((RouteAnswered /\ Has(ret, "location")) =>
             (ret.status = 302 /\ WellFormed(ret.query)))
    /\ []((RouteAnswered /\ ret.status = 302) => Has(ret, "location"))

\* a callback request was redirected to the client with the correlation code
\* and the client's state
C34_RedirectedToClient ==
    /\ RouteAnswered
    /\ ret.status = 302
    /\ ret.location.code = ret.query.state
    /\ ret.location.code \in DOMAIN authCodes
    /\ ret.location.state = authCodes[ret.location.code].state

\* a callback request with an error parameter, a code and the code of a
\* stored record was answered 400
C34_ErrorParameterRefused ==
    /\ RouteAnswered
    /\ ret.status = 400
    /\ ret.query.error # ""
    /\ ret.query.code # ""
    /\ ret.query.state \in DOMAIN authCodes

\* revoke has just returned after deleting the session of its token
RevokedAndDeleted == RevokedLive /\ ret.upstream = "revoked"

\* C35: once revoke(A) has returned for a live access value A, no step of a
\* request that was running when it returned makes a record keyed A exist
\* again.
C35_RevokedStaysRevoked ==
    [][RevokedAndDeleted =>
         (ret.token \notin DOMAIN sessions /\ ret.token \notin DOMAIN sessions')]_vars

\* the step of p ends a verifyAccessToken that returns authInfo
VerifyAccepts(p) ==
    /\ pc[p] = "vf_extend"
    /\ \/ pc'[p] = "mcp_handle"
       \/ Idle(p)' /\ Returned("verify")' /\ ret'.ok

\* t is a value that an exchange or a refresh has returned as access value
IssuedAsAccess(t) == t \in DOMAIN hist.issued

\* verify accepts only values issued as access value whose session is stored
\* and not expired
VerifyOnlyIssued ==
    [][\A p \in Procs :
         VerifyAccepts(p) =>
           /\ IssuedAsAccess(loc[p].token)
           /\ loc[p].token \in DOMAIN sessions
           /\ ~SessionExpired(sessions[loc[p].token], now)]_vars

\* C36: verify(t) returns authInfo only for a value t that an exchange or a
\* refresh has returned as access value, whose session is stored and not
\* expired, and that no revoke has just returned for: it fails for refresh
\* values, for the keys of the refresh index and for values never issued.
C36_VerifyOnlyLiveAccess ==
    /\ VerifyOnlyIssued
    /\ [][RevokedLive => \A p \in Procs : ~VerifyAccepts(p) /\ ~VerifyFinds(p, ret.token)]_vars

\* the step of p is the delete that getSession sends for a record it read as expired
LazyDelete(p) ==
    pc[p] \in {"vf_expire", "rv_expire", "rf_expire", "tc_expire"} /\ pc'[p] # pc[p]

LazyKey(p) == IF pc[p] = "rf_expire" THEN loc[p].sid ELSE loc[p].token

\* C37: the delete that getSession sends for a record it read as expired
\* removes no record whose stored expiry is not yet passed when the delete
\* reaches the store.
C37_LazyDeleteSparesLive ==
    [][\A p \in Procs :
         (/\ LazyDelete(p)
          /\ LazyKey(p) \in DOMAIN sessions
          /\ ~SessionExpired(sessions[LazyKey(p)], now))
            => LazyKey(p) \in DOMAIN sessions']_vars

\* the step is a step of the revoke request of p for token
RevokeStep(p, token) ==
    \/ pc[p] \in {"rv_expire", "rv_delete"} /\ pc'[p] # pc[p] /\ loc[p].token = token
    \/ Idle(p) /\ Idle(p)' /\ Returned("revoke")' /\ ret'.token = token
    \/ Idle(p) /\ pc'[p] \in {"rv_expire", "rv_delete"} /\ loc'[p].token = token

\* C38: a step of revoke(A) leaves the code store and every record of the
\* session store other than the one keyed A as they are, the refresh index
\* records among them; and a refresh whose index names a session that is not
\* stored fails without writing, so that after the newest access value of a
\* lineage was revoked the older sessions are still stored while refresh(R)
\* fails.
C38_RevokeOnlyItsSession ==
    [][\A p \in Procs :
         /\ \A token \in KnownTokens :
              RevokeStep(p, token) =>
                /\ authCodes' = authCodes
                /\ DOMAIN sessions' \subseteq DOMAIN sessions
                /\ \A k \in DOMAIN sessions \ {token} :
                     k \in DOMAIN sessions' /\ sessions'[k] = sessions[k]
         /\ (pc[p] = "rf_get_session" /\ pc'[p] # pc[p] /\ loc[p].sid \notin DOMAIN sessions) =>
              /\ Idle(p)' /\ Returned("refresh")' /\ ~ret'.ok
              /\ sessions' = sessions]_vars

\* revoke has deleted the newest session of a lineage: the refresh index still
\* names it, and an older session of the lineage is stored and not expired
C38_NewestRevokedOlderKept ==
    /\ RevokedAndDeleted
    /\ ret.token \notin DOMAIN sessions
    /\ \E k \in DOMAIN sessions :
         /\ IsIndex(sessions[k])
         /\ sessions[k].accessTokenSessionId = ret.token
         /\ \E older \in DOMAIN sessions :
              /\ Has(sessions[older], "mcpRefreshToken")
              /\ RefreshKey(sessions[older].mcpRefreshToken) = k
              /\ TokenNumber(older) < TokenNumber(ret.token)
              /\ ~SessionExpired(sessions[older], now)

\* a refresh has just failed on an index that names a session that is not stored
C38_RefreshOnRevokedFails ==
    /\ Returned("refresh")
    /\ ~ret.ok
    /\ RefreshKey(ret.refreshToken) \in DOMAIN sessions
    /\ sessions[RefreshKey(ret.refreshToken)].accessTokenSessionId \notin DOMAIN sessions

\* the step of p is the lookup of a tool call on token, and the call returns in it
ToolReturnsAtLookup(p, token) ==
    /\ \A q \in Procs : Idle(q)
    /\ Idle(p)' /\ Returned("tool")' /\ ret'.token = token

CalledResource(result) == result.ok \/ result.error = "Google API error"

\* C39: a tool call that fails because the upstream refresh threw was made on
\* a stored session due within 5 minutes that holds an upstream refresh value;
\* it fails with an authentication error, makes no resource call and leaves
\* the session store as it is.  A tool call on a token without a session fails
\* with an authentication error in the step of its lookup, which writes
\* nothing and calls neither the upstream nor the resource API.
C39_ToolCallAuthFailures ==
    [][\A p \in Procs : \A token \in KnownTokens :
         ToolReturnsAtLookup(p, token) =>
           LET session == Lookup(sessions, token)
           IN /\ (~ret'.ok /\ ret'.error = "Failed to refresh access token") =>
                   /\ Present(session)
                   /\ session.expiresAt - now < expiryBuffer
                   /\ Has(session, "refreshToken")
                   /\ ret'.code = "InvalidRequest"
                   /\ ~CalledResource(ret')
                   /\ sessions' = sessions
              /\ ~Present(session) =>
                   /\ ~ret'.ok
                   /\ ret'.error = "Session not found or expired"
                   /\ ret'.code = "InvalidRequest"
                   /\ ~CalledResource(ret')
                   /\ sessions' = sessions
              /\ CalledResource(ret') =>
                   /\ Present(session)
                   /\ ~SessionExpired(session, now)
                   /\ sessions' = sessions]_vars

\* a tool call has just failed because the upstream refresh threw, and its
\* session is stored
C39_RefreshFailedSessionKept ==
    /\ Returned("tool")
    /\ ~ret.ok
    /\ ret.error = "Failed to refresh access token"
    /\ ret.token \in DOMAIN sessions
    /\ Has(sessions[ret.token], "scope")

\* a tool call has just failed on a token without a session
C39_AbsentSessionRefused ==
    /\ Returned("tool")
    /\ ~ret.ok
    /\ ret.error = "Session not found or expired"
    /\ ret.token \notin DOMAIN sessions

\* OAuthService.refreshAccessToken has just failed in its catch block
ServiceRefreshCaught ==
    Returned("service_refresh") /\ ~ret.ok /\ ret.error = "Failed to refresh token"

\* after a failed upstream refresh the session is deleted, and a call on an
\* absent session or one without upstream refresh value returns in the step of
\* its lookup, which writes nothing
ServiceRefreshFailures ==
    /\ [](ServiceRefreshCaught => ret.sessionId \notin DOMAIN sessions)
    /\ [][\A p \in Procs :
            (/\ \A q \in Procs : Idle(q)
             /\ Idle(p)' /\ Returned("service_refresh")') =>
               LET session == Lookup(sessions, ret'.sessionId)
               IN /\ ~ret'.ok
                  /\ ~Present(session) \/ ~Has(session, "refreshToken")
                  /\ sessions' = sessions
                  /\ authCodes' = authCodes]_vars
    /\ [][\A p \in Procs :
            (pc[p] = "idle" /\ pc'[p] \in {"os_update", "os_delete"}) =>
               /\ loc'[p].sessionId \in DOMAIN sessions
               /\ Has(sessions[loc'[p].sessionId], "refreshToken")]_vars

\* C40: OAuthService.refreshAccessToken deletes the session and fails when
\* the upstream refresh fails or returns no access value; on an absent session
\* or one without upstream refresh value it fails without an upstream call and
\* without a write; and the step in which it succeeds changes nothing but the
\* accessToken and expiresAt of its session.
C40_ServiceRefresh ==
    /\ ServiceRefreshFailures
    /\ [][\A p \in Procs :
            (pc[p] = "os_update" /\ Idle(p)' /\ Returned("service_refresh")' /\ ret'.ok) =>
               LET key == loc[p].sessionId
               IN /\ key \in DOMAIN sessions
                  /\ DOMAIN sessions' = DOMAIN sessions
                  /\ \A k \in DOMAIN sessions \ {key} : sessions'[k] = sessions[k]
                  /\ DOMAIN sessions'[key] = DOMAIN sessions[key]
                  /\ \A f \in DOMAIN sessions[key] \ UpstreamFields :
                       sessions'[key][f] = sessions[key][f]
                  /\ authCodes' = authCodes]_vars

====
